---------------------------- MODULE Spec2Model ----------------------------
(***************************************************************************)
(* Model of the tabular export/import pipeline of the fiber-route          *)
(* dashboard: the ExportImportModal component (handleExport, handleImport) *)
(* and the export/import functions of utils/exportUtils.                   *)
(*                                                                         *)
(* Conventions.                                                            *)
(*  - A JavaScript string is a sequence of one-character strings, so that  *)
(*    number formatting, parseInt and endsWith are computed, not assumed.  *)
(*  - A JavaScript value is a record [t, s, n]: t is its type tag, s its   *)
(*    text when it is a string, n its value when it is a number.           *)
(*  - Link lengths and losses are fixed-point numbers counted in tenths.   *)
(*  - Object keys (column labels) and fixed message texts are TLA+ strings.*)
(***************************************************************************)
EXTENDS Integers, Sequences, FiniteSets, TLC

VARIABLES
  mode,             \* prop: "export" | "import"
  dataType,         \* prop: "routes" | "tickets" | "assets" | "maintenance" | "all"
  data,             \* prop: the four optional collections
  isOpen,           \* prop: whether the modal is rendered
  selectedFormat,   \* useState: "xlsx" | "csv" | "pdf"
  includeTimestamp, \* useState
  isProcessing,     \* useState
  message,          \* useState: NoMessage or [type, text]
  pending,          \* imports whose promise has not settled yet
  timers,           \* number of scheduled setTimeout(onClose, 2000)
  last,             \* what the most recent handler invocation did
  download,         \* the file most recently handed to the browser
  imported,         \* the most recent decoder result
  trafficData,      \* TrafficTable: the trafficData prop held by the parent
  editingId,        \* TrafficTable: id of the row being edited, or null
  editingData,      \* TrafficTable: the copy of the row being edited, or null
  newTraffic,       \* TrafficTable: the draft of a new record, or null
  now               \* the clock read by Date.now() and new Date()

vars == <<mode, dataType, data, isOpen, selectedFormat, includeTimestamp,
          isProcessing, message, pending, timers, last, download, imported,
          trafficData, editingId, editingData, newTraffic, now>>

TableVars == <<trafficData, editingId, editingData, newTraffic, now>>

(* A nullable JavaScript value: null, or a value. *)
Null == [null |-> TRUE]

Some(v) == [null |-> FALSE, value |-> v]

(* The table as it is mounted: no rows, nothing edited, no draft. *)
TableIdle ==
  /\ trafficData = <<>>
  /\ editingId = Null
  /\ editingData = Null
  /\ newTraffic = Null
  /\ now = 0

-----------------------------------------------------------------------------
(* Bounds of the model *)

MaxRoutes == 2
MaxLinks == 2
MaxRows == 2

-----------------------------------------------------------------------------
(* JavaScript values *)

Str(s) == [t |-> "string", s |-> s, n |-> 0]
Num(n) == [t |-> "number", s |-> <<>>, n |-> n]
NaN == [t |-> "NaN", s |-> <<>>, n |-> 0]
Undefined == [t |-> "undefined", s |-> <<>>, n |-> 0]

\* ToBoolean: '', 0, NaN and undefined are falsy
Truthy(v) ==
  CASE v.t = "string" -> v.s # <<>>
    [] v.t = "number" -> v.n # 0
    [] OTHER -> FALSE

\* a || b
Or(a, b) == IF Truthy(a) THEN a ELSE b

\* row[key] on a parsed row object
Get(row, key) == IF key \in DOMAIN row THEN row[key] ELSE Undefined

-----------------------------------------------------------------------------
(* Text *)

Digits == <<"0","1","2","3","4","5","6","7","8","9">>
DigitChars == {Digits[i] : i \in 1..10}
DigitVal(c) == CHOOSE d \in 0..9 : Digits[d + 1] = c

RECURSIVE NatText(_)
NatText(n) == IF n < 10 THEN <<Digits[n + 1]>>
              ELSE NatText(n \div 10) \o <<Digits[(n % 10) + 1]>>

\* String(n) for an integer n
IntText(n) == IF n < 0 THEN <<"-">> \o NatText(0 - n) ELSE NatText(n)

NaNText == <<"N","a","N">>
undefinedText == <<"u","n","d","e","f","i","n","e","d">>

\* String(v)
ToText(v) ==
  CASE v.t = "string" -> v.s
    [] v.t = "number" -> IntText(v.n)
    [] v.t = "NaN" -> NaNText
    [] OTHER -> undefinedText

RECURSIVE SkipSpaces(_)
SkipSpaces(s) == IF s # <<>> /\ Head(s) = " " THEN SkipSpaces(Tail(s)) ELSE s

RECURSIVE LeadingDigits(_)
LeadingDigits(s) == IF s # <<>> /\ Head(s) \in DigitChars
                    THEN <<Head(s)>> \o LeadingDigits(Tail(s))
                    ELSE <<>>

RECURSIVE DigitsValue(_, _)
DigitsValue(s, acc) == IF s = <<>> THEN acc
                       ELSE DigitsValue(Tail(s), 10 * acc + DigitVal(Head(s)))

\* parseInt(v): String(v), leading white space skipped, an optional sign,
\* then the longest run of decimal digits; NaN when there is none
ParseInt(v) ==
  LET txt == SkipSpaces(ToText(v))
      neg == txt # <<>> /\ Head(txt) = "-"
      body == IF txt # <<>> /\ Head(txt) \in {"-", "+"} THEN Tail(txt) ELSE txt
      ds == LeadingDigits(body)
  IN IF ds = <<>> THEN NaN
     ELSE Num(IF neg THEN 0 - DigitsValue(ds, 0) ELSE DigitsValue(ds, 0))

\* s.endsWith(suffix)
EndsWith(s, suffix) ==
  /\ Len(suffix) <= Len(s)
  /\ SubSeq(s, Len(s) - Len(suffix) + 1, Len(s)) = suffix

\* x.toFixed(1) for x counted in tenths (x >= 0)
ToFixed1(tenths) == NatText(tenths \div 10) \o <<".">> \o <<Digits[(tenths % 10) + 1]>>

-----------------------------------------------------------------------------
(* Text literals of the source *)

operational == <<"o","p","e","r","a","t","i","o","n","a","l">>
critical == <<"c","r","i","t","i","c","a","l">>
maintenanceText == <<"m","a","i","n","t","e","n","a","n","c","e">>
UnknownRoute == <<"U","n","k","n","o","w","n"," ","R","o","u","t","e">>
Unknown == <<"U","n","k","n","o","w","n">>
NA == <<"N","/","A">>
Unassigned == <<"U","n","a","s","s","i","g","n","e","d">>
Zero == <<"0">>
RoutesExportName == <<"r","o","u","t","e","s","_","e","x","p","o","r","t">>
dotXlsx == <<".","x","l","s","x">>
dotCsv == <<".","c","s","v">>
dotPdf == <<".","p","d","f">>

\* new Date().toISOString().split('T')[0]: the clock is not modelled, the
\* date of every call is this one
Today == <<"2","0","2","6","-","1","1","-","0","5">>

\* a variant of TimestampSuffix that appends the date whatever the options say
TimestampSuffixAlways(options) == <<"_">> \o Today

\* options.includeTimestamp ? `_${date}` : '' (the field is optional)
TimestampSuffix(options) ==
  IF "includeTimestamp" \in DOMAIN options /\ options.includeTimestamp
  THEN <<"_">> \o Today ELSE <<>>

\* options.filename || default (the field is optional)
OptionsFilename(options, default) ==
  IF "filename" \in DOMAIN options /\ options.filename # <<>>
  THEN options.filename ELSE default

\* options.title || default (the field is optional)
OptionsTitle(options, default) ==
  IF "title" \in DOMAIN options /\ options.title # <<>>
  THEN options.title ELSE default

NoFile == [kind |-> "none"]

-----------------------------------------------------------------------------
(* Sequences *)

SeqsUpTo(S, n) == UNION {[1..k -> S] : k \in 0..n}

-----------------------------------------------------------------------------
(* Route projections *)

RECURSIVE SumLength(_)
SumLength(links) == IF links = <<>> THEN 0 ELSE Head(links).length + SumLength(Tail(links))

RECURSIVE SumLoss(_)
SumLoss(links) == IF links = <<>> THEN 0 ELSE Head(links).totalLoss + SumLoss(Tail(links))

\* a / b on numbers counted in tenths, to the nearest tenth; 0 / 0 is NaN
Divide(a, b) == IF b = 0 THEN NaN ELSE Num((2 * a + b) \div (2 * b))

\* x.toFixed(1) of a JavaScript number counted in tenths
NumToFixed1(v) == IF v.t = "NaN" THEN NaNText ELSE ToFixed1(v.n)

\* route.links.reduce((sum, link) => sum + link.length, 0).toFixed(1)
TotalLengthText(links) == ToFixed1(SumLength(links))

AverageLossUnguarded(links) == NumToFixed1(Divide(SumLoss(links), Len(links)))

\* route.links.length > 0 ? (sum of totalLoss / route.links.length).toFixed(1) : '0'
AverageLossText(links) ==
  IF Len(links) > 0 THEN NumToFixed1(Divide(SumLoss(links), Len(links))) ELSE Zero

RouteColumns ==
  <<"Route ID", "Route Name", "Status", "Start Location", "End Location",
    "Fiber Count", "Total Links", "Total Length (km)", "Average Loss (dB)",
    "Trouble Tickets", "Handhole Count", "ODC Count", "Pole Count", "JC Count",
    "Last Maintenance", "Next Maintenance">>

\* the object literal that exportRoutesToXLSX, exportRoutesToCSV and the
\* Routes sheet of exportAllData build for one route
RouteRow(route) ==
  [k \in {RouteColumns[i] : i \in 1..Len(RouteColumns)} |->
    CASE k = "Route ID" -> Str(route.id)
      [] k = "Route Name" -> Str(route.name)
      [] k = "Status" -> Str(route.status)
      [] k = "Start Location" -> Str(route.location.start)
      [] k = "End Location" -> Str(route.location.end)
      [] k = "Fiber Count" -> Num(route.fiberCount)
      [] k = "Total Links" -> Num(Len(route.links))
      [] k = "Total Length (km)" -> Str(TotalLengthText(route.links))
      [] k = "Average Loss (dB)" -> Str(AverageLossText(route.links))
      [] k = "Trouble Tickets" -> Num(route.troubleTickets)
      [] k = "Handhole Count" -> Num(route.assets.handhole)
      [] k = "ODC Count" -> Num(route.assets.odc)
      [] k = "Pole Count" -> Num(route.assets.pole)
      [] k = "JC Count" -> Num(route.assets.jc)
      [] k = "Last Maintenance" -> Str(route.lastMaintenance)
      [] OTHER -> Str(route.nextMaintenance)]

\* the array that exportRoutesToPDF builds for one route
RoutePdfRow(route) ==
  <<route.name,
    route.status,
    route.location.start \o <<" ", "->", " ">> \o route.location.end,
    IntText(route.fiberCount),
    IntText(Len(route.links)),
    TotalLengthText(route.links),
    AverageLossText(route.links),
    IntText(route.troubleTickets)>>

-----------------------------------------------------------------------------
(* The libraries, as far as the code relies on them *)

\* XLSX.utils.json_to_sheet: the header is the keys in order of appearance,
\* a number becomes a numeric cell and a string a text cell, and a key whose
\* value is undefined leaves no cell
JsonToSheet(name, columns, rows) ==
  [name |-> name,
   header |-> IF rows = <<>> THEN <<>> ELSE columns,
   rows |-> [i \in 1..Len(rows) |->
              [k \in {c \in DOMAIN rows[i] : rows[i][c].t # "undefined"} |-> rows[i][k]]]]

\* XLSX.utils.sheet_to_json on the rows of a sheet: one object per row that
\* has a cell, keyed by the header row; a row without cells is skipped
RECURSIVE SheetToJson(_)
SheetToJson(rows) ==
  IF rows = <<>> THEN <<>>
  ELSE (IF DOMAIN Head(rows) # {} THEN <<Head(rows)>> ELSE <<>>) \o SheetToJson(Tail(rows))

\* Papa.unparse: the fields are the keys of the first object; every value is
\* written as its text, undefined as the empty field
PapaUnparse(columns, rows) ==
  [header |-> IF rows = <<>> THEN <<>> ELSE columns,
   lines |-> [i \in 1..Len(rows) |->
               [j \in 1..Len(columns) |->
                 IF Get(rows[i], columns[j]).t = "undefined" THEN <<>>
                 ELSE ToText(rows[i][columns[j]])]]]

\* Papa.parse with header: true: one object per line, every value a string,
\* keyed by the header fields the line reaches
PapaParse(content) ==
  [i \in 1..Len(content.lines) |->
    [k \in {content.header[j] :
              j \in 1..(IF Len(content.lines[i]) < Len(content.header)
                        THEN Len(content.lines[i]) ELSE Len(content.header))} |->
      Str(content.lines[i][CHOOSE j \in 1..Len(content.header) : content.header[j] = k])]]

-----------------------------------------------------------------------------
(* Route exports *)

exportRoutesToXLSX(routes, options) ==
  LET filename == OptionsFilename(options, RoutesExportName)
      timestamp == TimestampSuffix(options)
      exportData == [i \in 1..Len(routes) |-> RouteRow(routes[i])]
  IN [kind |-> "xlsx",
      name |-> filename \o timestamp \o dotXlsx,
      sheets |-> <<JsonToSheet("Routes", RouteColumns, exportData)>>]

exportRoutesToCSV(routes, options) ==
  LET filename == OptionsFilename(options, RoutesExportName)
      timestamp == TimestampSuffix(options)
      exportData == [i \in 1..Len(routes) |-> RouteRow(routes[i])]
  IN [kind |-> "csv",
      name |-> filename \o timestamp \o dotCsv,
      csv |-> PapaUnparse(RouteColumns, exportData)]

exportRoutesToPDF(routes, options) ==
  LET filename == OptionsFilename(options, RoutesExportName)
      timestamp == TimestampSuffix(options)
  IN [kind |-> "pdf",
      name |-> filename \o timestamp \o dotPdf,
      title |-> OptionsTitle(options, <<"Routes", " Report">>),
      tables |-> <<[head |-> <<"Route", "Status", "Location", "Fibers", "Links",
                               "Length (km)", "Avg Loss (dB)", "Tickets">>,
                    body |-> [i \in 1..Len(routes) |-> RoutePdfRow(routes[i])]]>>]

-----------------------------------------------------------------------------
(* Ticket, asset and maintenance exports *)

TicketsExportName == <<"t","r","o","u","b","l","e","_","t","i","c","k","e","t","s","_","e","x","p","o","r","t">>
AssetsExportName == <<"n","e","t","w","o","r","k","_","a","s","s","e","t","s","_","e","x","p","o","r","t">>
MaintenanceExportName == <<"m","a","i","n","t","e","n","a","n","c","e","_","r","e","c","o","r","d","s","_","e","x","p","o","r","t">>
CompleteExportName == <<"f","i","b","e","r","n","e","t","_","c","o","m","p","l","e","t","e","_","e","x","p","o","r","t","_">>
Ellipsis == <<".",".",".">>

\* new Date(x).toLocaleString() and toLocaleDateString(): the rendering
\* depends on the host's locale and is left uninterpreted
LocaleString(x) == <<"toLocaleString(">> \o x \o <<")">>
LocaleDateString(x) == <<"toLocaleDateString(">> \o x \o <<")">>

\* routes.find(r => r.id === routeId): the index of the first match, 0 if none
FindRoute(routes, routeId) ==
  IF \E i \in 1..Len(routes) : routes[i].id = routeId
  THEN CHOOSE i \in 1..Len(routes) :
         /\ routes[i].id = routeId
         /\ \A j \in 1..(i - 1) : routes[j].id # routeId
  ELSE 0

getRouteNameFirstRoute(routes, routeId) ==
  LET i == FindRoute(routes, routeId)
  IN IF i # 0 THEN routes[i].name
     ELSE IF routes # <<>> THEN routes[1].name ELSE UnknownRoute

\* getRouteName of exportTroubleTicketsToXLSX/PDF, exportAssetsToXLSX/PDF and
\* exportMaintenanceToXLSX/PDF: route ? route.name : 'Unknown Route'
getRouteName(routes, routeId) ==
  LET i == FindRoute(routes, routeId)
  IN IF i # 0 THEN routes[i].name ELSE UnknownRoute

\* exportAllData: routes.find(r => r.id === routeId)?.name || 'Unknown'
BulkRouteName(routes, routeId) ==
  LET i == FindRoute(routes, routeId)
  IN Or(IF i # 0 THEN Str(routes[i].name) ELSE Undefined, Str(Unknown))

\* formatDuration of exportTroubleTicketsToXLSX
formatDuration(minutes) ==
  IF ~Truthy(minutes) THEN NA
  ELSE LET hours == minutes.n \div 60
           mins == minutes.n % 60
       IN IF hours > 0 THEN NatText(hours) \o <<"h", " ">> \o NatText(mins) \o <<"m">>
          ELSE NatText(mins) \o <<"m">>

\* x ? new Date(x).toLocaleString() : 'N/A'
LocaleOrNA(x) == IF Truthy(x) THEN Str(LocaleString(x.s)) ELSE Str(NA)

\* the object literal of ticketsData
TicketRow(ticket, routes) ==
  ("Ticket Number" :> Str(ticket.ticketNumber)) @@
  ("Route" :> Str(getRouteName(routes, ticket.routeId))) @@
  ("Link ID" :> Or(ticket.linkId, Str(NA))) @@
  ("Title" :> Str(ticket.title)) @@
  ("Description" :> Str(ticket.description)) @@
  ("Priority" :> Str(ticket.priority)) @@
  ("Status" :> Str(ticket.status)) @@
  ("Category" :> Str(ticket.category)) @@
  ("Reported By" :> Str(ticket.reportedBy)) @@
  ("Assigned To" :> Or(ticket.assignedTo, Str(Unassigned))) @@
  ("Person Handling" :> Or(ticket.personHandling, Str(NA))) @@
  ("Impact" :> Str(ticket.impact)) @@
  ("Repair Type" :> Str(ticket.repairType)) @@
  ("Cores Spliced" :> Num(ticket.coresSpliced)) @@
  ("Root Cause" :> Str(ticket.rootCause)) @@
  ("Traffic Impacted" :> Str(ticket.trafficImpacted)) @@
  ("Location" :> Str(ticket.location.address)) @@
  ("Landmark" :> Or(ticket.location.landmark, Str(NA))) @@
  ("Coordinates" :> Str(IntText(ticket.problemCoordinates.latitude) \o <<",", " ">>
                        \o IntText(ticket.problemCoordinates.longitude))) @@
  ("Created At" :> Str(LocaleString(ticket.createdAt))) @@
  ("Updated At" :> Str(LocaleString(ticket.updatedAt))) @@
  ("Resolved At" :> LocaleOrNA(ticket.resolvedAt)) @@
  ("Closed At" :> LocaleOrNA(ticket.closedAt)) @@
  ("Total Duration" :> Str(formatDuration(ticket.totalDuration))) @@
  ("SLA Target (hours)" :> Or(ticket.slaTarget, Str(NA))) @@
  ("SLA Status" :> Or(ticket.slaStatus, Str(NA))) @@
  ("Activities Count" :> Num(Len(ticket.activities))) @@
  ("Materials Count" :> Num(Len(ticket.materialUsage))) @@
  ("Photos Count" :> Num(Len(ticket.photos)))

TicketColumns ==
  <<"Ticket Number", "Route", "Link ID", "Title", "Description", "Priority", "Status",
    "Category", "Reported By", "Assigned To", "Person Handling", "Impact", "Repair Type",
    "Cores Spliced", "Root Cause", "Traffic Impacted", "Location", "Landmark",
    "Coordinates", "Created At", "Updated At", "Resolved At", "Closed At",
    "Total Duration", "SLA Target (hours)", "SLA Status", "Activities Count",
    "Materials Count", "Photos Count">>

\* the object literal of materialsData for one material of one ticket
MaterialRow(ticket, material, routes) ==
  ("Ticket Number" :> Str(ticket.ticketNumber)) @@
  ("Route" :> Str(getRouteName(routes, ticket.routeId))) @@
  ("Material Type" :> Str(material.materialType)) @@
  ("Material Name" :> Str(material.materialName)) @@
  ("Quantity" :> Num(material.quantity)) @@
  ("Unit" :> Str(material.unit)) @@
  ("Supplier" :> Or(material.supplier, Str(NA))) @@
  ("Part Number" :> Or(material.partNumber, Str(NA))) @@
  ("Used Date" :> Str(material.usedDate)) @@
  ("Location" :> Or(material.location, Str(NA))) @@
  ("Coordinates" :> IF material.coordinates.present
                    THEN Str(IntText(material.coordinates.latitude) \o <<",", " ">>
                             \o IntText(material.coordinates.longitude))
                    ELSE Str(NA)) @@
  ("Notes" :> Or(material.notes, Str(NA)))

MaterialColumns ==
  <<"Ticket Number", "Route", "Material Type", "Material Name", "Quantity", "Unit",
    "Supplier", "Part Number", "Used Date", "Location", "Coordinates", "Notes">>

\* tickets.flatMap(ticket => ticket.materialUsage.map(...))
\* a variant of MaterialsData that flattens the first ticket's entries only
MaterialsDataFirstTicket(tickets, routes) ==
  IF tickets = <<>> THEN <<>>
  ELSE [j \in 1..Len(Head(tickets).materialUsage) |->
          MaterialRow(Head(tickets), Head(tickets).materialUsage[j], routes)]

RECURSIVE MaterialsData(_, _)
MaterialsData(tickets, routes) ==
  IF tickets = <<>> THEN <<>>
  ELSE LET ticket == Head(tickets)
       IN [j \in 1..Len(ticket.materialUsage) |->
             MaterialRow(ticket, ticket.materialUsage[j], routes)]
          \o MaterialsData(Tail(tickets), routes)

exportTroubleTicketsToXLSX(tickets, routes, options) ==
  LET filename == OptionsFilename(options, TicketsExportName)
      timestamp == TimestampSuffix(options)
      ticketsData == [i \in 1..Len(tickets) |-> TicketRow(tickets[i], routes)]
      materialsData == MaterialsData(tickets, routes)
  IN [kind |-> "xlsx",
      name |-> filename \o timestamp \o dotXlsx,
      sheets |-> <<JsonToSheet("Trouble Tickets", TicketColumns, ticketsData)>>
                 \o IF Len(materialsData) > 0
                    THEN <<JsonToSheet("Material Usage", MaterialColumns, materialsData)>>
                    ELSE <<>>]

\* s.substring(0, n) + (s.length > n ? '...' : '')
Truncate(s, n) == IF Len(s) > n THEN SubSeq(s, 1, n) \o Ellipsis ELSE s

\* the distinct values of a sequence, in order of first appearance
RECURSIVE Distinct(_)
Distinct(s) ==
  IF s = <<>> THEN <<>>
  ELSE LET init == Distinct(SubSeq(s, 1, Len(s) - 1))
           x == s[Len(s)]
       IN IF \E j \in 1..Len(init) : init[j] = x THEN init ELSE Append(init, x)

\* Object.entries of the reduce that counts the records per value of a field
CountBy(values) ==
  LET keys == Distinct(values)
  IN [k \in 1..Len(keys) |->
       [key |-> keys[k],
        count |-> Cardinality({i \in 1..Len(values) : values[i] = keys[k]})]]

TicketPdfRow(ticket, routes) ==
  <<ticket.ticketNumber,
    getRouteName(routes, ticket.routeId),
    Truncate(ticket.title, 30),
    ticket.priority,
    ticket.status,
    ticket.impact,
    LocaleDateString(ticket.createdAt)>>

exportTroubleTicketsToPDF(tickets, routes, options) ==
  LET filename == OptionsFilename(options, TicketsExportName)
      timestamp == TimestampSuffix(options)
  IN [kind |-> "pdf",
      name |-> filename \o timestamp \o dotPdf,
      title |-> OptionsTitle(options, <<"Trouble Tickets", " Report">>),
      total |-> Len(tickets),
      summary |-> CountBy([i \in 1..Len(tickets) |-> tickets[i].status]),
      tables |-> <<[head |-> <<"Ticket #", "Route", "Title", "Priority", "Status",
                               "Impact", "Created">>,
                    body |-> [i \in 1..Len(tickets) |-> TicketPdfRow(tickets[i], routes)]]>>]

\* calculateCompleteness of exportAssetsToXLSX, on the checklist's values:
\* Math.round((completed / total) * 100), NaN for a checklist without entries
calculateCompleteness(completeness) ==
  LET total == Len(completeness)
      completed == Cardinality({i \in 1..Len(completeness) : completeness[i]})
  IN IF total = 0 THEN NaN ELSE Num((200 * completed + total) \div (2 * total))

\* the object literal of assetsData
AssetRow(asset, routes) ==
  ("Asset Number" :> Str(asset.assetNumber)) @@
  ("Asset Name" :> Str(asset.name)) @@
  ("Type" :> Str(asset.type)) @@
  ("Route" :> Str(getRouteName(routes, asset.routeId))) @@
  ("Link ID" :> Or(asset.linkId, Str(NA))) @@
  ("Condition" :> Str(asset.condition)) @@
  ("Status" :> Str(asset.status)) @@
  ("Address" :> Str(asset.location.address)) @@
  ("Landmark" :> Or(asset.location.landmark, Str(NA))) @@
  ("Longitude" :> Num(asset.location.longitude)) @@
  ("Latitude" :> Num(asset.location.latitude)) @@
  ("Elevation (m)" :> Or(asset.location.elevation, Str(NA))) @@
  ("Installation Date" :> Str(asset.installationDate)) @@
  ("Last Inspection" :> Or(asset.lastInspection, Str(NA))) @@
  ("Next Inspection" :> Or(asset.nextInspection, Str(NA))) @@
  ("Manufacturer" :> Or(asset.specifications.manufacturer, Str(NA))) @@
  ("Model" :> Or(asset.specifications.model, Str(NA))) @@
  ("Serial Number" :> Or(asset.specifications.serialNumber, Str(NA))) @@
  ("Capacity" :> Or(asset.specifications.capacity, Str(NA))) @@
  ("Material" :> Or(asset.specifications.material, Str(NA))) @@
  ("IP Rating" :> Or(asset.specifications.ipRating, Str(NA))) @@
  ("Completeness (%)" :> calculateCompleteness(asset.completeness)) @@
  ("Photos Count" :> Num(Len(asset.photos))) @@
  ("Maintenance Records" :> Num(Len(asset.maintenanceHistory))) @@
  ("Created At" :> Str(LocaleString(asset.createdAt))) @@
  ("Created By" :> Str(asset.createdBy)) @@
  ("Last Modified" :> Str(LocaleString(asset.updatedAt))) @@
  ("Last Modified By" :> Str(asset.lastModifiedBy)) @@
  ("Notes" :> Or(asset.notes, Str(NA)))

AssetColumns ==
  <<"Asset Number", "Asset Name", "Type", "Route", "Link ID", "Condition", "Status",
    "Address", "Landmark", "Longitude", "Latitude", "Elevation (m)", "Installation Date",
    "Last Inspection", "Next Inspection", "Manufacturer", "Model", "Serial Number",
    "Capacity", "Material", "IP Rating", "Completeness (%)", "Photos Count",
    "Maintenance Records", "Created At", "Created By", "Last Modified",
    "Last Modified By", "Notes">>

exportAssetsToXLSX(assets, routes, options) ==
  LET filename == OptionsFilename(options, AssetsExportName)
      timestamp == TimestampSuffix(options)
      assetsData == [i \in 1..Len(assets) |-> AssetRow(assets[i], routes)]
  IN [kind |-> "xlsx",
      name |-> filename \o timestamp \o dotXlsx,
      sheets |-> <<JsonToSheet("Network Assets", AssetColumns, assetsData)>>]

AssetPdfRow(asset, routes) ==
  <<asset.assetNumber,
    Truncate(asset.name, 20),
    asset.type,
    getRouteName(routes, asset.routeId),
    asset.condition,
    asset.status,
    LocaleDateString(asset.installationDate)>>

exportAssetsToPDF(assets, routes, options) ==
  LET filename == OptionsFilename(options, AssetsExportName)
      timestamp == TimestampSuffix(options)
  IN [kind |-> "pdf",
      name |-> filename \o timestamp \o dotPdf,
      title |-> OptionsTitle(options, <<"Network Assets", " Report">>),
      total |-> Len(assets),
      summary |-> CountBy([i \in 1..Len(assets) |-> assets[i].type]),
      tables |-> <<[head |-> <<"Asset #", "Name", "Type", "Route", "Condition",
                               "Status", "Installed">>,
                    body |-> [i \in 1..Len(assets) |-> AssetPdfRow(assets[i], routes)]]>>]

\* the object literal of exportMaintenanceToXLSX's exportData
MaintenanceRow(record, routes) ==
  ("Record ID" :> Str(record.id)) @@
  ("Route" :> Str(getRouteName(routes, record.routeId))) @@
  ("Type" :> Str(record.type)) @@
  ("Status" :> Str(record.status)) @@
  ("Title" :> Str(record.title)) @@
  ("Description" :> Str(record.description)) @@
  ("Priority" :> Str(record.priority)) @@
  ("Scheduled Date" :> Str(record.scheduledDate)) @@
  ("Completed Date" :> Or(record.completedDate, Str(NA))) @@
  ("Technician" :> Str(record.technician)) @@
  ("Duration (hours)" :> Or(record.duration, Str(NA))) @@
  ("Notes" :> Or(record.notes, Str(NA)))

MaintenanceColumns ==
  <<"Record ID", "Route", "Type", "Status", "Title", "Description", "Priority",
    "Scheduled Date", "Completed Date", "Technician", "Duration (hours)", "Notes">>

exportMaintenanceToXLSX(records, routes, options) ==
  LET filename == OptionsFilename(options, MaintenanceExportName)
      timestamp == TimestampSuffix(options)
      exportData == [i \in 1..Len(records) |-> MaintenanceRow(records[i], routes)]
  IN [kind |-> "xlsx",
      name |-> filename \o timestamp \o dotXlsx,
      sheets |-> <<JsonToSheet("Maintenance Records", MaintenanceColumns, exportData)>>]

MaintenancePdfRow(record, routes) ==
  <<getRouteName(routes, record.routeId),
    Truncate(record.title, 25),
    record.type,
    record.status,
    record.priority,
    record.technician,
    record.scheduledDate>>

exportMaintenanceToPDF(records, routes, options) ==
  LET filename == OptionsFilename(options, MaintenanceExportName)
      timestamp == TimestampSuffix(options)
  IN [kind |-> "pdf",
      name |-> filename \o timestamp \o dotPdf,
      title |-> OptionsTitle(options, <<"Maintenance Records", " Report">>),
      total |-> Len(records),
      summary |-> CountBy([i \in 1..Len(records) |-> records[i].status]),
      tables |-> <<[head |-> <<"Route", "Title", "Type", "Status", "Priority",
                               "Technician", "Scheduled">>,
                    body |-> [i \in 1..Len(records) |->
                               MaintenancePdfRow(records[i], routes)]]>>]

-----------------------------------------------------------------------------
(* Bulk export *)

\* routes.slice(0, 10), tickets.slice(0, 10)
SummaryRows == 10

Slice(s, n) == IF Len(s) > n THEN SubSeq(s, 1, n) ELSE s

BulkAssetColumns ==
  <<"Asset Number", "Asset Name", "Type", "Route", "Condition", "Status", "Location",
    "Installation Date", "Last Inspection", "Next Inspection">>

BulkAssetRow(asset, routes) ==
  ("Asset Number" :> Str(asset.assetNumber)) @@
  ("Asset Name" :> Str(asset.name)) @@
  ("Type" :> Str(asset.type)) @@
  ("Route" :> BulkRouteName(routes, asset.routeId)) @@
  ("Condition" :> Str(asset.condition)) @@
  ("Status" :> Str(asset.status)) @@
  ("Location" :> Str(asset.location.address)) @@
  ("Installation Date" :> Str(asset.installationDate)) @@
  ("Last Inspection" :> Or(asset.lastInspection, Str(NA))) @@
  ("Next Inspection" :> Or(asset.nextInspection, Str(NA)))

BulkTicketColumns ==
  <<"Ticket Number", "Route", "Title", "Priority", "Status", "Category", "Impact",
    "Repair Type", "Created At", "Resolved At">>

BulkTicketRow(ticket, routes) ==
  ("Ticket Number" :> Str(ticket.ticketNumber)) @@
  ("Route" :> BulkRouteName(routes, ticket.routeId)) @@
  ("Title" :> Str(ticket.title)) @@
  ("Priority" :> Str(ticket.priority)) @@
  ("Status" :> Str(ticket.status)) @@
  ("Category" :> Str(ticket.category)) @@
  ("Impact" :> Str(ticket.impact)) @@
  ("Repair Type" :> Str(ticket.repairType)) @@
  ("Created At" :> Str(LocaleString(ticket.createdAt))) @@
  ("Resolved At" :> LocaleOrNA(ticket.resolvedAt))

BulkMaintenanceColumns ==
  <<"Route", "Type", "Status", "Title", "Priority", "Scheduled Date", "Completed Date",
    "Technician", "Duration (hours)">>

BulkMaintenanceRow(record, routes) ==
  ("Route" :> BulkRouteName(routes, record.routeId)) @@
  ("Type" :> Str(record.type)) @@
  ("Status" :> Str(record.status)) @@
  ("Title" :> Str(record.title)) @@
  ("Priority" :> Str(record.priority)) @@
  ("Scheduled Date" :> Str(record.scheduledDate)) @@
  ("Completed Date" :> Or(record.completedDate, Str(NA))) @@
  ("Technician" :> Str(record.technician)) @@
  ("Duration (hours)" :> Or(record.duration, Str(NA)))

BulkRoutePdfRow(route) ==
  <<route.name, route.status, IntText(route.fiberCount), IntText(Len(route.links)),
    IntText(route.troubleTickets)>>

BulkTicketPdfRow(ticket, routes) ==
  <<ticket.ticketNumber,
    ToText(BulkRouteName(routes, ticket.routeId)),
    ticket.priority,
    ticket.status,
    LocaleDateString(ticket.createdAt)>>

\* exportAllData: the file it writes; for a format that is neither 'xlsx' nor
\* 'pdf' it writes none. The vertical cursor and the page break of the
\* report are the rendering library's geometry and are not modelled.
exportAllData(routes, tickets, assets, maintenance, format) ==
  LET timestamp == Today
  IN IF format = "xlsx" THEN
       [kind |-> "xlsx",
        name |-> CompleteExportName \o timestamp \o dotXlsx,
        sheets |->
          <<JsonToSheet("Routes", RouteColumns, [i \in 1..Len(routes) |-> RouteRow(routes[i])])>>
          \o (IF Len(assets) > 0
              THEN <<JsonToSheet("Assets", BulkAssetColumns,
                                 [i \in 1..Len(assets) |-> BulkAssetRow(assets[i], routes)])>>
              ELSE <<>>)
          \o (IF Len(tickets) > 0
              THEN <<JsonToSheet("Trouble Tickets", BulkTicketColumns,
                                 [i \in 1..Len(tickets) |-> BulkTicketRow(tickets[i], routes)])>>
              ELSE <<>>)
          \o (IF Len(maintenance) > 0
              THEN <<JsonToSheet("Maintenance", BulkMaintenanceColumns,
                                 [i \in 1..Len(maintenance) |->
                                   BulkMaintenanceRow(maintenance[i], routes)])>>
              ELSE <<>>)]
     ELSE IF format = "pdf" THEN
       [kind |-> "pdf",
        name |-> CompleteExportName \o timestamp \o dotPdf,
        title |-> "FiberNet Complete Report",
        counts |-> [routes |-> Len(routes), tickets |-> Len(tickets),
                    assets |-> Len(assets), maintenance |-> Len(maintenance)],
        tables |->
          (IF Len(routes) > 0
           THEN <<[caption |-> "Routes Summary",
                   head |-> <<"Route", "Status", "Fibers", "Links", "Tickets">>,
                   body |-> [i \in 1..Len(Slice(routes, SummaryRows)) |-> BulkRoutePdfRow(routes[i])]]>>
           ELSE <<>>)
          \o (IF Len(tickets) > 0
              THEN <<[caption |-> "Recent Trouble Tickets",
                      head |-> <<"Ticket #", "Route", "Priority", "Status", "Created">>,
                      body |-> [i \in 1..Len(Slice(tickets, SummaryRows)) |->
                                 BulkTicketPdfRow(tickets[i], routes)]]>>
              ELSE <<>>)]
     ELSE NoFile

-----------------------------------------------------------------------------
(* Import decoders *)

RowToRouteIgnoringStatus(row) ==
  [name |-> Or(Get(row, "Route Name"), Get(row, "name")),
   status |-> Str(operational),
   fiberCount |-> Or(ParseInt(Or(Get(row, "Fiber Count"), Get(row, "fiberCount"))), Num(0)),
   location |->
     [start |-> Or(Or(Get(row, "Start Location"), Get(row, "start")), Str(<<>>)),
      end |-> Or(Or(Get(row, "End Location"), Get(row, "end")), Str(<<>>))],
   lastMaintenance |-> Or(Or(Get(row, "Last Maintenance"), Get(row, "lastMaintenance")), Str(Today)),
   nextMaintenance |-> Or(Or(Get(row, "Next Maintenance"), Get(row, "nextMaintenance")), Str(Today)),
   troubleTickets |-> Or(ParseInt(Or(Get(row, "Trouble Tickets"), Get(row, "troubleTickets"))), Num(0)),
   assets |->
     [handhole |-> Or(ParseInt(Or(Get(row, "Handhole Count"), Get(row, "handhole"))), Num(0)),
      odc |-> Or(ParseInt(Or(Get(row, "ODC Count"), Get(row, "odc"))), Num(0)),
      pole |-> Or(ParseInt(Or(Get(row, "Pole Count"), Get(row, "pole"))), Num(0)),
      jc |-> Or(ParseInt(Or(Get(row, "JC Count"), Get(row, "jc"))), Num(0))],
   links |-> <<>>]

\* the row mapping of importRoutesFromXLSX and importRoutesFromCSV
RowToRoute(row) ==
  [name |-> Or(Get(row, "Route Name"), Get(row, "name")),
   status |-> Or(Or(Get(row, "Status"), Get(row, "status")), Str(operational)),
   fiberCount |-> Or(ParseInt(Or(Get(row, "Fiber Count"), Get(row, "fiberCount"))), Num(0)),
   location |->
     [start |-> Or(Or(Get(row, "Start Location"), Get(row, "start")), Str(<<>>)),
      end |-> Or(Or(Get(row, "End Location"), Get(row, "end")), Str(<<>>))],
   lastMaintenance |-> Or(Or(Get(row, "Last Maintenance"), Get(row, "lastMaintenance")), Str(Today)),
   nextMaintenance |-> Or(Or(Get(row, "Next Maintenance"), Get(row, "nextMaintenance")), Str(Today)),
   troubleTickets |-> Or(ParseInt(Or(Get(row, "Trouble Tickets"), Get(row, "troubleTickets"))), Num(0)),
   assets |->
     [handhole |-> Or(ParseInt(Or(Get(row, "Handhole Count"), Get(row, "handhole"))), Num(0)),
      odc |-> Or(ParseInt(Or(Get(row, "ODC Count"), Get(row, "odc"))), Num(0)),
      pole |-> Or(ParseInt(Or(Get(row, "Pole Count"), Get(row, "pole"))), Num(0)),
      jc |-> Or(ParseInt(Or(Get(row, "JC Count"), Get(row, "jc"))), Num(0))],
   links |-> <<>>]

\* routes.filter(route => route.name)
RECURSIVE FilterNamed(_)
FilterNamed(routes) ==
  IF routes = <<>> THEN <<>>
  ELSE (IF Truthy(Head(routes).name) THEN <<Head(routes)>> ELSE <<>>)
       \o FilterNamed(Tail(routes))

\* jsonData.map(row => ...), results.data.map(row => ...)
MapRows(rows) == [i \in 1..Len(rows) |-> RowToRoute(rows[i])]

\* a variant of Rejected in which a failure is swallowed into an empty result
RejectedAsEmpty(error) == [settled |-> "resolved", routes |-> <<>>, error |-> "none"]

Resolved(routes) == [settled |-> "resolved", routes |-> routes, error |-> "none"]
Rejected(error) == [settled |-> "rejected", routes |-> <<>>, error |-> error]

\* importRoutesFromXLSX: what its promise settles to. readOk: the FileReader
\* fired onload and not onerror. XLSX.read throws on content that is no
\* workbook; only the first sheet is read; the rows are not filtered.
importRoutesFromXLSX(file, readOk) ==
  IF ~readOk THEN Rejected("Failed to read file")
  ELSE IF file.kind # "xlsx" THEN Rejected("Failed to parse Excel file")
  ELSE Resolved(MapRows(IF file.sheets = <<>> THEN <<>>
                         ELSE SheetToJson(file.sheets[1].rows)))

\* importRoutesFromCSV: what its promise settles to; rows without a name are
\* filtered out
importRoutesFromCSV(file, readOk) ==
  IF ~readOk THEN Rejected("Failed to parse CSV file")
  ELSE Resolved(FilterNamed(MapRows(PapaParse(file.csv))))

-----------------------------------------------------------------------------
(* Input data *)

Node1 == <<"N","o","d","e","1">>
Node2 == <<"N","o","d","e","2">>
SegmentA == <<"S","e","g","m","e","n","t"," ","A">>

Present(items) == [present |-> TRUE, items |-> items]
Absent == [present |-> FALSE, items |-> <<>>]

\* the i-th link of a route: 1.5 km and 0.4 dB, 3.0 km and 0.8 dB, ...
LinkAt(i) == [length |-> 15 * i, totalLoss |-> 4 * i]

LinkLists == {[i \in 1..k |-> LinkAt(i)] : k \in 0..MaxLinks}

RouteProfiles ==
  {[status |-> operational, location |-> [start |-> <<>>, end |-> <<>>]],
   [status |-> critical, location |-> [start |-> Node1, end |-> Node2]]}

\* routes without their id
RouteUniverse ==
  {[name |-> nm, status |-> p.status, location |-> p.location, fiberCount |-> fc,
    links |-> ls, troubleTickets |-> 3,
    assets |-> [handhole |-> 0, odc |-> 1, pole |-> 20, jc |-> 2],
    lastMaintenance |-> Today, nextMaintenance |-> <<>>] :
     nm \in {<<>>, SegmentA}, p \in RouteProfiles, fc \in {0, 12}, ls \in LinkLists}

RouteId(i) == <<"r", "-">> \o NatText(i)

WithId(r, i) ==
  [id |-> RouteId(i), name |-> r.name, status |-> r.status, location |-> r.location,
   fiberCount |-> r.fiberCount, links |-> r.links, troubleTickets |-> r.troubleTickets,
   assets |-> r.assets, lastMaintenance |-> r.lastMaintenance,
   nextMaintenance |-> r.nextMaintenance]

\* route collections: the i-th route has id r-i
RouteCollections ==
  {[i \in 1..Len(rs) |-> WithId(rs[i], i)] : rs \in SeqsUpTo(RouteUniverse, MaxRoutes)}

NoMessage == [type |-> "none", text |-> "none", count |-> 0]
NotImported == [settled |-> "none", routes |-> <<>>, error |-> "none"]
Idle == [op |-> "none"]

\* getDataTypeLabel
getDataTypeLabel(dt) ==
  CASE dt = "routes" -> "Routes"
    [] dt = "tickets" -> "Trouble Tickets"
    [] dt = "assets" -> "Network Assets"
    [] dt = "maintenance" -> "Maintenance Records"
    [] dt = "all" -> "All Data"
    [] OTHER -> "Data"

\* handleExport's options: { includeTimestamp, title: `${getDataTypeLabel()} Report` }
Options == [includeTimestamp |-> includeTimestamp, title |-> <<getDataTypeLabel(dataType), " Report">>]

-----------------------------------------------------------------------------
(* SpecRoutes: the route export functions applied to a route collection,   *)
(* and the import decoders applied to the file they wrote                  *)

InitRoutes ==
  /\ mode = "export"
  /\ dataType = "routes"
  /\ \E rs \in RouteCollections :
       data = [routes |-> Present(rs), tickets |-> Absent, assets |-> Absent,
               maintenance |-> Absent]
  /\ isOpen = TRUE
  /\ selectedFormat = "xlsx"
  /\ includeTimestamp \in BOOLEAN
  /\ isProcessing = FALSE
  /\ message = NoMessage
  /\ pending = <<>>
  /\ timers = 0
  /\ last = Idle
  /\ download = NoFile
  /\ imported = NotImported
  /\ TableIdle

ModalUnchanged ==
  UNCHANGED <<mode, dataType, data, isOpen, selectedFormat, includeTimestamp,
              isProcessing, message, pending, timers, TableVars>>

RunExportRoutesXLSX ==
  /\ download = NoFile
  /\ download' = exportRoutesToXLSX(data.routes.items, Options)
  /\ last' = [op |-> "exportRoutesToXLSX"]
  /\ UNCHANGED imported
  /\ ModalUnchanged

RunExportRoutesCSV ==
  /\ download = NoFile
  /\ download' = exportRoutesToCSV(data.routes.items, Options)
  /\ last' = [op |-> "exportRoutesToCSV"]
  /\ UNCHANGED imported
  /\ ModalUnchanged

RunExportRoutesPDF ==
  /\ download = NoFile
  /\ download' = exportRoutesToPDF(data.routes.items, Options)
  /\ last' = [op |-> "exportRoutesToPDF"]
  /\ UNCHANGED imported
  /\ ModalUnchanged

RunImportRoutesXLSX ==
  /\ last.op = "exportRoutesToXLSX"
  /\ imported' = importRoutesFromXLSX(download, TRUE)
  /\ last' = [op |-> "importRoutesFromXLSX"]
  /\ UNCHANGED download
  /\ ModalUnchanged

RunImportRoutesCSV ==
  /\ last.op = "exportRoutesToCSV"
  /\ imported' = importRoutesFromCSV(download, TRUE)
  /\ last' = [op |-> "importRoutesFromCSV"]
  /\ UNCHANGED download
  /\ ModalUnchanged

RunExportAllRoutesSheet ==
  /\ download = NoFile
  /\ download' = exportAllData(data.routes.items, data.tickets.items, data.assets.items,
                               data.maintenance.items, "xlsx")
  /\ last' = [op |-> "exportAllData"]
  /\ UNCHANGED imported
  /\ ModalUnchanged

NextRoutes ==
  \/ RunExportRoutesXLSX
  \/ RunExportRoutesCSV
  \/ RunExportRoutesPDF
  \/ RunExportAllRoutesSheet
  \/ RunImportRoutesXLSX
  \/ RunImportRoutesCSV

SpecRoutes == InitRoutes /\ [][NextRoutes]_vars

-----------------------------------------------------------------------------
(* Claims on SpecRoutes *)

Routes == data.routes.items

RoundTripped == last.op \in {"importRoutesFromXLSX", "importRoutesFromCSV"}

\* record i of the decoder's result carries route i's exported fields
SameFields(rec, route) ==
  /\ rec.name = Str(route.name)
  /\ rec.status = Str(route.status)
  /\ rec.fiberCount = Num(route.fiberCount)
  /\ rec.location.start = Str(route.location.start)
  /\ rec.location.end = Str(route.location.end)
  /\ rec.links = <<>>

RoundTripHolds ==
  /\ imported.settled = "resolved"
  /\ Len(imported.routes) = Len(Routes)
  /\ \A i \in 1..Len(Routes) : SameFields(imported.routes[i], Routes[i])

AllNamed == \A i \in 1..Len(Routes) : Routes[i].name # <<>>

\* C1 as stated: for every non-empty route collection, importing the file
\* written by exportRoutesToXLSX / exportRoutesToCSV with the matching decoder
\* returns one record per route, in order, with the route's name, status,
\* fiberCount and location, and with empty links.
C1_RoundTripAnyRoutes == (RoundTripped /\ Routes # <<>>) => RoundTripHolds

\* C1 amended: the same, for the non-empty route collections in which every
\* route has a non-empty name.
C1_RoundTripNamedRoutes == (RoundTripped /\ Routes # <<>> /\ AllNamed) => RoundTripHolds

C1_Witness ==
  /\ last.op = "importRoutesFromCSV"
  /\ Len(Routes) = 2
  /\ AllNamed
  /\ Routes[1].fiberCount = 12
  /\ Routes[1].status # Routes[2].status
  /\ RoundTripHolds


\* position of a column label in RouteColumns
ColumnIndex(label) == CHOOSE j \in 1..Len(RouteColumns) : RouteColumns[j] = label

\* what the file in download shows for route i: its "Average Loss (dB)" and
\* "Total Length (km)" cells, as JavaScript values
AverageLossCell(i) ==
  CASE download.kind = "xlsx" -> Get(download.sheets[1].rows[i], "Average Loss (dB)")
    [] download.kind = "csv" -> Str(download.csv.lines[i][ColumnIndex("Average Loss (dB)")])
    [] OTHER -> Str(download.tables[1].body[i][7])

TotalLengthCell(i) ==
  CASE download.kind = "xlsx" -> Get(download.sheets[1].rows[i], "Total Length (km)")
    [] download.kind = "csv" -> Str(download.csv.lines[i][ColumnIndex("Total Length (km)")])
    [] OTHER -> Str(download.tables[1].body[i][6])

RoutesFileWritten ==
  last.op \in {"exportRoutesToXLSX", "exportRoutesToCSV", "exportRoutesToPDF",
               "exportAllData"}

\* C9: for every route whose links collection is empty, every route
\* projection (workbook, delimited text, paginated report, bulk Routes sheet)
\* renders "Average Loss (dB)" as "0" and "Total Length (km)" as "0.0".
C9_EmptyLinksAggregates ==
  RoutesFileWritten =>
    \A i \in 1..Len(Routes) :
      Routes[i].links = <<>> =>
        /\ AverageLossCell(i) = Str(Zero)
        /\ TotalLengthCell(i) = Str(<<"0", ".", "0">>)

C9_Witness ==
  /\ last.op = "exportRoutesToPDF"
  /\ Len(Routes) = 2
  /\ Routes[1].links # <<>>
  /\ Routes[2].links = <<>>
  /\ AverageLossCell(2) = Str(Zero)
  /\ TotalLengthCell(1) # TotalLengthCell(2)


-----------------------------------------------------------------------------
(* SpecRefs: the ticket, asset, maintenance and bulk export functions      *)
(* applied to records that refer to routes                                 *)

MaxRecords == 2
MaxMaterials == 1

\* how the optional fields of a record are filled: all absent, all present
\* with non-zero values, or present with the numeric ones equal to 0
Profiles == {"absent", "present", "zero"}

OptText(profile, s) == IF profile = "absent" THEN Undefined ELSE Str(s)
OptNum(profile, n) ==
  CASE profile = "absent" -> Undefined
    [] profile = "present" -> Num(n)
    [] OTHER -> Num(0)

\* the ids records refer to: the first route's, and one no route has
RouteRefs == {RouteId(1), <<"r", "-", "x">>}

MaterialOf(profile) ==
  [materialType |-> <<"c","a","b","l","e">>, materialName |-> <<"F","O">>,
   quantity |-> 2, unit |-> <<"m">>,
   supplier |-> OptText(profile, <<"S">>), partNumber |-> OptText(profile, <<"P","1">>),
   usedDate |-> Today, location |-> OptText(profile, Node1),
   coordinates |-> [present |-> profile # "absent", latitude |-> 6, longitude |-> 106],
   notes |-> OptText(profile, <<"n">>)]

TicketUniverse ==
  {[ticketNumber |-> <<"T","T">>, routeId |-> ref,
    linkId |-> OptText(profile, <<"L","1">>),
    title |-> <<"c","u","t">>, description |-> <<"d">>, priority |-> <<"h","i","g","h">>,
    status |-> <<"o","p","e","n">>, category |-> <<"f","i","b","e","r">>,
    reportedBy |-> <<"u","1">>,
    assignedTo |-> OptText(profile, <<"u","2">>),
    personHandling |-> OptText(profile, <<"u","3">>),
    impact |-> <<"l","o","w">>, repairType |-> <<"s","p","l","i","c","e">>,
    coresSpliced |-> 4, rootCause |-> <<"d","i","g">>, trafficImpacted |-> <<"n","o">>,
    location |-> [address |-> Node1, landmark |-> OptText(profile, Node2)],
    problemCoordinates |-> [latitude |-> 6, longitude |-> 106],
    createdAt |-> Today, updatedAt |-> Today,
    resolvedAt |-> OptText(profile, Today), closedAt |-> OptText(profile, Today),
    totalDuration |-> OptNum(profile, 135),
    slaTarget |-> OptNum(profile, 4),
    slaStatus |-> OptText(profile, <<"m","e","t">>),
    activities |-> <<>>,
    materialUsage |-> [j \in 1..k |-> [MaterialOf(profile) EXCEPT !.quantity = j]],
    photos |-> <<>>] :
     ref \in RouteRefs, profile \in Profiles, k \in 0..MaxMaterials}

Checklists == {<<>>, <<TRUE, FALSE, TRUE>>}

AssetUniverse ==
  {[assetNumber |-> <<"A","S">>, name |-> <<"H","H">>, type |-> <<"h","a","n","d","h","o","l","e">>,
    routeId |-> ref, linkId |-> OptText(profile, <<"L","1">>),
    condition |-> <<"g","o","o","d">>, status |-> <<"a","c","t","i","v","e">>,
    location |-> [address |-> Node1, landmark |-> OptText(profile, Node2),
                  longitude |-> 106, latitude |-> 6, elevation |-> OptNum(profile, 35)],
    installationDate |-> Today,
    lastInspection |-> OptText(profile, Today), nextInspection |-> OptText(profile, Today),
    specifications |->
      [manufacturer |-> OptText(profile, <<"M">>), model |-> OptText(profile, <<"X","1">>),
       serialNumber |-> OptText(profile, <<"S","N">>), capacity |-> OptText(profile, <<"2","4">>),
       material |-> OptText(profile, <<"P","V","C">>), ipRating |-> OptText(profile, <<"I","P","6","8">>)],
    completeness |-> cl, photos |-> <<>>, maintenanceHistory |-> <<>>,
    createdAt |-> Today, createdBy |-> <<"u","1">>, updatedAt |-> Today,
    lastModifiedBy |-> <<"u","2">>, notes |-> OptText(profile, <<"n">>)] :
     ref \in RouteRefs, profile \in Profiles, cl \in Checklists}

MaintenanceUniverse ==
  {[id |-> <<"M","R">>, routeId |-> ref, type |-> <<"p","r","e","v">>,
    status |-> <<"d","o","n","e">>, title |-> <<"c","l","e","a","n">>,
    description |-> <<"d">>, priority |-> <<"l","o","w">>, scheduledDate |-> Today,
    completedDate |-> OptText(profile, Today), technician |-> <<"u","3">>,
    duration |-> OptNum(profile, 4), notes |-> OptText(profile, <<"n">>)] :
     ref \in RouteRefs, profile \in Profiles}

\* the routes records refer to: k routes named Segment A, ids r-1 .. r-k
NamedRoute == CHOOSE r \in RouteUniverse :
                /\ r.name = SegmentA /\ r.status = critical
                /\ r.fiberCount = 12 /\ r.links = <<>>

RefRouteCollections == {[i \in 1..k |-> WithId(NamedRoute, i)] : k \in 0..MaxRoutes}

RefData ==
  {[routes |-> Present(rs), tickets |-> Present(ts), assets |-> Present(<<>>),
    maintenance |-> Present(<<>>)] :
     rs \in RefRouteCollections, ts \in SeqsUpTo(TicketUniverse, MaxRecords)}
  \cup
  {[routes |-> Present(rs), tickets |-> Present(<<>>), assets |-> Present(as),
    maintenance |-> Present(<<>>)] :
     rs \in RefRouteCollections, as \in SeqsUpTo(AssetUniverse, MaxRecords)}
  \cup
  {[routes |-> Present(rs), tickets |-> Present(<<>>), assets |-> Present(<<>>),
    maintenance |-> Present(ms)] :
     rs \in RefRouteCollections, ms \in SeqsUpTo(MaintenanceUniverse, MaxRecords)}

InitRefs ==
  /\ mode = "export"
  /\ dataType = "all"
  /\ data \in RefData
  /\ isOpen = TRUE
  /\ selectedFormat = "xlsx"
  /\ includeTimestamp \in BOOLEAN
  /\ isProcessing = FALSE
  /\ message = NoMessage
  /\ pending = <<>>
  /\ timers = 0
  /\ last = Idle
  /\ download = NoFile
  /\ imported = NotImported
  /\ TableIdle

Tickets == data.tickets.items
Assets == data.assets.items
Maintenance == data.maintenance.items

Wrote(op, file) ==
  /\ download = NoFile
  /\ last.op = "none"
  /\ download' = file
  /\ last' = [op |-> op]
  /\ UNCHANGED imported
  /\ ModalUnchanged

RunExportTicketsXLSX ==
  Wrote("exportTroubleTicketsToXLSX", exportTroubleTicketsToXLSX(Tickets, data.routes.items, Options))

RunExportTicketsPDF ==
  Wrote("exportTroubleTicketsToPDF", exportTroubleTicketsToPDF(Tickets, data.routes.items, Options))

RunExportAssetsXLSX ==
  Wrote("exportAssetsToXLSX", exportAssetsToXLSX(Assets, data.routes.items, Options))

RunExportAssetsPDF ==
  Wrote("exportAssetsToPDF", exportAssetsToPDF(Assets, data.routes.items, Options))

RunExportMaintenanceXLSX ==
  Wrote("exportMaintenanceToXLSX", exportMaintenanceToXLSX(Maintenance, data.routes.items, Options))

RunExportMaintenancePDF ==
  Wrote("exportMaintenanceToPDF", exportMaintenanceToPDF(Maintenance, data.routes.items, Options))

RunExportAll ==
  \E format \in {"xlsx", "pdf", "csv"} :
    Wrote("exportAllData",
          exportAllData(data.routes.items, Tickets, Assets, Maintenance, format))

NextRefs ==
  \/ RunExportTicketsXLSX
  \/ RunExportTicketsPDF
  \/ RunExportAssetsXLSX
  \/ RunExportAssetsPDF
  \/ RunExportMaintenanceXLSX
  \/ RunExportMaintenancePDF
  \/ RunExportAll

SpecRefs == InitRefs /\ [][NextRefs]_vars


-----------------------------------------------------------------------------
(* Claims on SpecRefs *)

Matches(routeId) == \E i \in 1..Len(Routes) : Routes[i].id = routeId

\* the rows of the first sheet (workbook) or of the first table (report) of
\* the file in download, and the Route cell of such a row as text
MainRows ==
  IF download.kind = "xlsx" THEN download.sheets[1].rows
  ELSE download.tables[1].body

RouteCellText(row, column) ==
  IF download.kind = "xlsx" THEN ToText(Get(row, "Route")) ELSE row[column]

TicketExported == last.op \in {"exportTroubleTicketsToXLSX", "exportTroubleTicketsToPDF"}

\* C7: in the ticket workbook and the ticket report there is one row per
\* ticket, in order; the Route column of a ticket whose routeId no route has
\* is "Unknown Route", that of any other ticket the route's name; the file
\* is written.
C7_UnknownRouteInTicketExports ==
  TicketExported =>
    /\ download.kind \in {"xlsx", "pdf"}
    /\ Len(MainRows) = Len(Tickets)
    /\ \A i \in 1..Len(Tickets) :
         /\ ~Matches(Tickets[i].routeId) => RouteCellText(MainRows[i], 2) = UnknownRoute
         /\ Matches(Tickets[i].routeId) => RouteCellText(MainRows[i], 2) = SegmentA

C7_Witness ==
  /\ last.op = "exportTroubleTicketsToPDF"
  /\ Len(Tickets) = 2
  /\ Len(Routes) = 2
  /\ ~Matches(Tickets[1].routeId)
  /\ Matches(Tickets[2].routeId)
  /\ RouteCellText(MainRows[1], 2) = UnknownRoute
  /\ RouteCellText(MainRows[2], 2) = SegmentA

\* the sheets of a workbook, or the tables of a report, that have a Route
\* column, as pairs of the records they project and their rows
RouteColumnOf(head) == CHOOSE j \in 1..Len(head) : head[j] = "Route"

RECURSIVE FlattenMaterialRefs(_)
FlattenMaterialRefs(tickets) ==
  IF tickets = <<>> THEN <<>>
  ELSE [j \in 1..Len(Head(tickets).materialUsage) |-> Head(tickets).routeId]
       \o FlattenMaterialRefs(Tail(tickets))

\* the routeId behind row i of a sheet or table, by the sheet's name or the
\* table's first heading
RefsOf(name) ==
  CASE name \in {"Trouble Tickets", "Ticket #"} -> [i \in 1..Len(Tickets) |-> Tickets[i].routeId]
    [] name = "Material Usage" -> FlattenMaterialRefs(Tickets)
    [] name \in {"Network Assets", "Assets", "Asset #"} ->
         [i \in 1..Len(Assets) |-> Assets[i].routeId]
    [] name \in {"Maintenance Records", "Maintenance"} ->
         [i \in 1..Len(Maintenance) |-> Maintenance[i].routeId]
    [] OTHER -> <<>>

UnresolvedShownAs(text) ==
  CASE download.kind = "xlsx" ->
         \A s \in 1..Len(download.sheets) :
           LET sheet == download.sheets[s]
               refs == RefsOf(sheet.name)
           IN \A i \in 1..Len(refs) :
                ~Matches(refs[i]) => Get(sheet.rows[i], "Route") = Str(text)
    [] download.kind = "pdf" ->
         \A s \in 1..Len(download.tables) :
           LET table == download.tables[s]
               refs == IF table.head[1] # "Route" THEN RefsOf(table.head[1])
                       ELSE IF table.head[2] = "Title" THEN RefsOf("Maintenance")
                       ELSE <<>>
           IN \A i \in 1..Len(table.body) :
                (i <= Len(refs) /\ ~Matches(refs[i])) =>
                   table.body[i][RouteColumnOf(table.head)] = text
    [] OTHER -> TRUE

\* C8: in every export function that resolves a route reference, the bulk
\* export included, a routeId that matches no route is rendered as
\* "Unknown Route".
C8_UnknownRouteEverywhere == UnresolvedShownAs(UnknownRoute)

\* an optional field and the cell that shows it: the placeholder when the
\* field is absent, the field's own value when it is present
ShownOrNA(field, cell) ==
  IF field.t = "undefined" THEN cell = Str(NA) ELSE cell = field

\* C10: in the ticket, asset and maintenance workbooks every optional field
\* that is absent is rendered as "N/A", and a field that is present, 0
\* included, as its own value.
C10_OptionalFieldsOrPlaceholder ==
  /\ last.op = "exportTroubleTicketsToXLSX" =>
       \A i \in 1..Len(Tickets) :
         LET row == download.sheets[1].rows[i]
         IN /\ ShownOrNA(Tickets[i].linkId, Get(row, "Link ID"))
            /\ ShownOrNA(Tickets[i].personHandling, Get(row, "Person Handling"))
            /\ ShownOrNA(Tickets[i].location.landmark, Get(row, "Landmark"))
            /\ ShownOrNA(Tickets[i].slaTarget, Get(row, "SLA Target (hours)"))
            /\ ShownOrNA(Tickets[i].slaStatus, Get(row, "SLA Status"))
  /\ last.op = "exportAssetsToXLSX" =>
       \A i \in 1..Len(Assets) :
         LET row == download.sheets[1].rows[i]
         IN /\ ShownOrNA(Assets[i].linkId, Get(row, "Link ID"))
            /\ ShownOrNA(Assets[i].location.landmark, Get(row, "Landmark"))
            /\ ShownOrNA(Assets[i].location.elevation, Get(row, "Elevation (m)"))
            /\ ShownOrNA(Assets[i].lastInspection, Get(row, "Last Inspection"))
            /\ ShownOrNA(Assets[i].nextInspection, Get(row, "Next Inspection"))
            /\ ShownOrNA(Assets[i].specifications.manufacturer, Get(row, "Manufacturer"))
            /\ ShownOrNA(Assets[i].specifications.model, Get(row, "Model"))
            /\ ShownOrNA(Assets[i].specifications.serialNumber, Get(row, "Serial Number"))
            /\ ShownOrNA(Assets[i].specifications.capacity, Get(row, "Capacity"))
            /\ ShownOrNA(Assets[i].specifications.material, Get(row, "Material"))
            /\ ShownOrNA(Assets[i].specifications.ipRating, Get(row, "IP Rating"))
            /\ ShownOrNA(Assets[i].notes, Get(row, "Notes"))
  /\ last.op = "exportMaintenanceToXLSX" =>
       \A i \in 1..Len(Maintenance) :
         LET row == download.sheets[1].rows[i]
         IN /\ ShownOrNA(Maintenance[i].completedDate, Get(row, "Completed Date"))
            /\ ShownOrNA(Maintenance[i].duration, Get(row, "Duration (hours)"))
            /\ ShownOrNA(Maintenance[i].notes, Get(row, "Notes"))


-----------------------------------------------------------------------------
(* Files a user may select for import *)

\* a row of a user's table: its name, status and fiber count as typed, each
\* possibly left blank (<<>>, 0)
UserRows ==
  {[name |-> nm, status |-> st, fiberCount |-> fc] :
     nm \in {<<>>, SegmentA}, st \in {<<>>, critical}, fc \in {0, 12}}

\* the column headings of a user's table: the export's labels, or the
\* fallback keys of the decoders
Headings(style) ==
  IF style = "labels" THEN [name |-> "Route Name", status |-> "Status", fiberCount |-> "Fiber Count"]
  ELSE [name |-> "name", status |-> "status", fiberCount |-> "fiberCount"]

\* a workbook whose first sheet holds the rows: a blank value leaves no cell
UserWorkbook(name, style, rows) ==
  LET h == Headings(style)
      cells(r) == (IF r.name # <<>> THEN h.name :> Str(r.name) ELSE <<>>)
                  @@ (IF r.status # <<>> THEN h.status :> Str(r.status) ELSE <<>>)
                  @@ (IF r.fiberCount # 0 THEN h.fiberCount :> Num(r.fiberCount) ELSE <<>>)
  IN [kind |-> "xlsx", name |-> name, userRows |-> rows,
      sheets |-> <<[name |-> "Sheet1",
                    header |-> <<h.name, h.status, h.fiberCount>>,
                    rows |-> [i \in 1..Len(rows) |-> cells(rows[i])]]>>]

\* a delimited-text file that holds the rows: a blank value is an empty field
UserCsv(name, style, rows) ==
  LET h == Headings(style)
  IN [kind |-> "csv", name |-> name, userRows |-> rows,
      csv |-> [header |-> <<h.name, h.status, h.fiberCount>>,
               lines |-> [i \in 1..Len(rows) |->
                           <<rows[i].name, rows[i].status,
                             IF rows[i].fiberCount = 0 THEN <<>>
                             ELSE IntText(rows[i].fiberCount)>>]]]

\* a file whose bytes are no workbook
CorruptFile(name) == [kind |-> "corrupt", name |-> name, userRows |-> <<>>]

FileXlsx == <<"r", ".", "x", "l", "s", "x">>
FileCsv == <<"r", ".", "c", "s", "v">>
FileTxt == <<"r", ".", "t", "x", "t">>
FileUpper == <<"r", ".", "X", "L", "S", "X">>

UserFiles ==
  {UserWorkbook(FileXlsx, style, rows) :
     style \in {"labels", "keys"}, rows \in SeqsUpTo(UserRows, MaxRows)}
  \cup
  {UserCsv(FileCsv, style, rows) :
     style \in {"labels", "keys"}, rows \in SeqsUpTo(UserRows, MaxRows)}
  \cup {CorruptFile(FileXlsx)}

-----------------------------------------------------------------------------
(* SpecDecode: the import decoders applied to a user's file *)

InitDecode ==
  /\ mode = "import"
  /\ dataType = "routes"
  /\ data = [routes |-> Absent, tickets |-> Absent, assets |-> Absent,
             maintenance |-> Absent]
  /\ isOpen = TRUE
  /\ selectedFormat = "xlsx"
  /\ includeTimestamp = TRUE
  /\ isProcessing = FALSE
  /\ message = NoMessage
  /\ pending = <<>>
  /\ timers = 0
  /\ \E f \in UserFiles : last = [op |-> "none", file |-> f]
  /\ download = NoFile
  /\ imported = NotImported
  /\ TableIdle

RunDecodeXLSX ==
  /\ last.op = "none"
  /\ last.file.kind \in {"xlsx", "corrupt"}
  /\ \E readOk \in BOOLEAN : imported' = importRoutesFromXLSX(last.file, readOk)
  /\ last' = [op |-> "importRoutesFromXLSX", file |-> last.file]
  /\ UNCHANGED download
  /\ ModalUnchanged

RunDecodeCSV ==
  /\ last.op = "none"
  /\ last.file.kind = "csv"
  /\ \E readOk \in BOOLEAN : imported' = importRoutesFromCSV(last.file, readOk)
  /\ last' = [op |-> "importRoutesFromCSV", file |-> last.file]
  /\ UNCHANGED download
  /\ ModalUnchanged

NextDecode == RunDecodeXLSX \/ RunDecodeCSV

SpecDecode == InitDecode /\ [][NextDecode]_vars

\* the rows of a user's file that carry a name, in input order
RECURSIVE NamedRows(_)
NamedRows(rows) ==
  IF rows = <<>> THEN <<>>
  ELSE (IF Head(rows).name # <<>> THEN <<Head(rows)>> ELSE <<>>) \o NamedRows(Tail(rows))

Decoded ==
  /\ last.op \in {"importRoutesFromXLSX", "importRoutesFromCSV"}
  /\ imported.settled = "resolved"

\* C5: both decoders drop every row without a name and keep every other row
\* in input order: the result has one record per named row, each with that
\* row's name.
C5_BlankNamedRowsDropped ==
  Decoded =>
    LET named == NamedRows(last.file.userRows)
    IN /\ Len(imported.routes) = Len(named)
       /\ \A i \in 1..Len(imported.routes) : imported.routes[i].name = Str(named[i].name)


-----------------------------------------------------------------------------
(* The modal: what its handlers decide *)

MaxTimers == 2
MaxPending == 2

DataTypes == {"routes", "tickets", "assets", "maintenance", "all"}

\* a variant of getAvailableFormats that offers csv for every data type
getAvailableFormatsAll(dt) == {"xlsx", "csv", "pdf"}

\* getAvailableFormats
getAvailableFormats(dt) ==
  CASE dt = "routes" -> {"xlsx", "csv", "pdf"}
    [] dt \in {"tickets", "assets", "maintenance", "all"} -> {"xlsx", "pdf"}
    [] OTHER -> {"xlsx"}

\* a variant of MissingData that looks at the requested kind's own collection
\* only
MissingDataOwnOnly(dt, d) ==
  CASE dt = "routes" ->
         IF ~d.routes.present THEN "No routes data available" ELSE "none"
    [] dt = "tickets" ->
         IF ~d.tickets.present THEN "No tickets data available" ELSE "none"
    [] dt = "assets" ->
         IF ~d.assets.present THEN "No assets data available" ELSE "none"
    [] dt = "maintenance" ->
         IF ~d.maintenance.present THEN "No maintenance data available" ELSE "none"
    [] OTHER ->
         IF ~d.routes.present \/ ~d.tickets.present \/ ~d.assets.present
            \/ ~d.maintenance.present
         THEN "Incomplete data for full export" ELSE "none"

\* the message of the guard that opens each case of handleExport's switch,
\* "none" when the collections the case needs are there
MissingData(dt, d) ==
  CASE dt = "routes" ->
         IF ~d.routes.present THEN "No routes data available" ELSE "none"
    [] dt = "tickets" ->
         IF ~d.tickets.present \/ ~d.routes.present
         THEN "No tickets data available" ELSE "none"
    [] dt = "assets" ->
         IF ~d.assets.present \/ ~d.routes.present
         THEN "No assets data available" ELSE "none"
    [] dt = "maintenance" ->
         IF ~d.maintenance.present \/ ~d.routes.present
         THEN "No maintenance data available" ELSE "none"
    [] dt = "all" ->
         IF ~d.routes.present \/ ~d.tickets.present \/ ~d.assets.present
            \/ ~d.maintenance.present
         THEN "Incomplete data for full export" ELSE "none"
    [] OTHER -> "Invalid data type"

\* a variant of ExportCall whose last branch falls through to the PDF export
ExportCallPdfFallback(dt, fmt) ==
  CASE dt = "routes" ->
         (CASE fmt = "xlsx" -> "exportRoutesToXLSX"
            [] fmt = "csv" -> "exportRoutesToCSV"
            [] fmt = "pdf" -> "exportRoutesToPDF"
            [] OTHER -> "none")
    [] dt = "tickets" ->
         IF fmt = "xlsx" THEN "exportTroubleTicketsToXLSX" ELSE "exportTroubleTicketsToPDF"
    [] dt = "assets" ->
         IF fmt = "xlsx" THEN "exportAssetsToXLSX" ELSE "exportAssetsToPDF"
    [] dt = "maintenance" ->
         IF fmt = "xlsx" THEN "exportMaintenanceToXLSX" ELSE "exportMaintenanceToPDF"
    [] OTHER -> "exportAllData"

\* the export function that handleExport's switch calls for a data type and a
\* format; "throw" where the branch throws instead, "none" where no branch
\* matches
ExportCall(dt, fmt) ==
  CASE dt = "routes" ->
         (CASE fmt = "xlsx" -> "exportRoutesToXLSX"
            [] fmt = "csv" -> "exportRoutesToCSV"
            [] fmt = "pdf" -> "exportRoutesToPDF"
            [] OTHER -> "none")
    [] dt = "tickets" ->
         (CASE fmt = "xlsx" -> "exportTroubleTicketsToXLSX"
            [] fmt = "pdf" -> "exportTroubleTicketsToPDF"
            [] OTHER -> "throw")
    [] dt = "assets" ->
         (CASE fmt = "xlsx" -> "exportAssetsToXLSX"
            [] fmt = "pdf" -> "exportAssetsToPDF"
            [] OTHER -> "throw")
    [] dt = "maintenance" ->
         (CASE fmt = "xlsx" -> "exportMaintenanceToXLSX"
            [] fmt = "pdf" -> "exportMaintenanceToPDF"
            [] OTHER -> "throw")
    [] OTHER -> "exportAllData"

\* the message of the throw in the last branch of a case
UnsupportedFormat(dt) ==
  CASE dt = "tickets" -> "CSV export not available for trouble tickets"
    [] dt = "assets" -> "CSV export not available for assets"
    [] OTHER -> "CSV export not available for maintenance records"

\* the file an export function hands to the browser
ExportFile(call, d, options, fmt) ==
  CASE call = "exportRoutesToXLSX" -> exportRoutesToXLSX(d.routes.items, options)
    [] call = "exportRoutesToCSV" -> exportRoutesToCSV(d.routes.items, options)
    [] call = "exportRoutesToPDF" -> exportRoutesToPDF(d.routes.items, options)
    [] call = "exportTroubleTicketsToXLSX" ->
         exportTroubleTicketsToXLSX(d.tickets.items, d.routes.items, options)
    [] call = "exportTroubleTicketsToPDF" ->
         exportTroubleTicketsToPDF(d.tickets.items, d.routes.items, options)
    [] call = "exportAssetsToXLSX" ->
         exportAssetsToXLSX(d.assets.items, d.routes.items, options)
    [] call = "exportAssetsToPDF" ->
         exportAssetsToPDF(d.assets.items, d.routes.items, options)
    [] call = "exportMaintenanceToXLSX" ->
         exportMaintenanceToXLSX(d.maintenance.items, d.routes.items, options)
    [] call = "exportMaintenanceToPDF" ->
         exportMaintenanceToPDF(d.maintenance.items, d.routes.items, options)
    [] call = "exportAllData" ->
         exportAllData(d.routes.items, d.tickets.items, d.assets.items,
                       d.maintenance.items, fmt)
    [] OTHER -> NoFile

ErrorMessage(text) == [type |-> "error", text |-> text, count |-> 0]

\* `${getDataTypeLabel()} exported successfully!`
ExportedMessage(dt) ==
  [type |-> "success", text |-> <<getDataTypeLabel(dt), " exported successfully!">>,
   count |-> 0]

\* `Successfully imported ${importedData.length} ${dataType}`
ImportedMessage(n, dt) ==
  [type |-> "success", text |-> <<"Successfully imported", dt>>, count |-> n]

\* a variant of ImportSupported that lets every data type through
ImportSupportedAny(dt) == TRUE

\* handleImport decodes for routes only
ImportSupported(dt) == dt = "routes"

\* a variant of SelectDecoder that reads every other name as delimited text
SelectDecoderCsvFallback(name) ==
  IF EndsWith(name, dotXlsx) THEN "importRoutesFromXLSX" ELSE "importRoutesFromCSV"

\* the decoder handleImport picks from the file's name, "none" where it throws
SelectDecoder(name) ==
  IF EndsWith(name, dotXlsx) THEN "importRoutesFromXLSX"
  ELSE IF EndsWith(name, dotCsv) THEN "importRoutesFromCSV"
  ELSE "none"

\* what the awaited decoder settles to
Decode(decoder, file, readOk) ==
  IF decoder = "importRoutesFromXLSX" THEN importRoutesFromXLSX(file, readOk)
  ELSE importRoutesFromCSV(file, readOk)

-----------------------------------------------------------------------------
(* SpecExport: the modal in export mode *)

OneTicket ==
  CHOOSE t \in TicketUniverse : t.routeId = RouteId(1)
OneMaintenance ==
  CHOOSE m \in MaintenanceUniverse : m.routeId = RouteId(1)

\* the data prop: each collection given or left out
ModalData ==
  {[routes |-> IF r THEN Present(<<WithId(NamedRoute, 1)>>) ELSE Absent,
    tickets |-> IF t THEN Present(<<OneTicket>>) ELSE Absent,
    assets |-> IF a THEN Present(<<>>) ELSE Absent,
    maintenance |-> IF m THEN Present(<<OneMaintenance>>) ELSE Absent] :
     r \in BOOLEAN, t \in BOOLEAN, a \in BOOLEAN, m \in BOOLEAN}

NoExport ==
  [op |-> "none", dataType |-> "none", format |-> "none", invoked |-> "none",
   wrote |-> FALSE, includeTimestamp |-> TRUE]

InitExport ==
  /\ mode = "export"
  /\ dataType \in DataTypes
  /\ data \in ModalData
  /\ isOpen = TRUE
  /\ selectedFormat = "xlsx"
  /\ includeTimestamp = TRUE
  /\ isProcessing = FALSE
  /\ message = NoMessage
  /\ pending = <<>>
  /\ timers = 0
  /\ last = NoExport
  /\ download = NoFile
  /\ imported = NotImported
  /\ TableIdle

\* a click on one of the format buttons the modal renders
SelectFormat ==
  /\ isOpen /\ mode = "export"
  /\ \E format \in getAvailableFormats(dataType) : selectedFormat' = format
  /\ UNCHANGED TableVars
  /\ UNCHANGED <<mode, dataType, data, isOpen, includeTimestamp, isProcessing,
                 message, pending, timers, last, download, imported>>

\* the timestamp checkbox
ToggleTimestamp ==
  /\ isOpen /\ mode = "export"
  /\ includeTimestamp' = ~includeTimestamp
  /\ UNCHANGED TableVars
  /\ UNCHANGED <<mode, dataType, data, isOpen, selectedFormat, isProcessing,
                 message, pending, timers, last, download, imported>>

\* handleExport, from the click to its finally block
HandleExport ==
  /\ isOpen /\ mode = "export" /\ ~isProcessing
  /\ timers < MaxTimers
  /\ LET missing == MissingData(dataType, data)
         call == ExportCall(dataType, selectedFormat)
         failed == missing # "none" \/ call = "throw"
         file == IF failed THEN NoFile
                 ELSE ExportFile(call, data, Options, selectedFormat)
     IN /\ message' = IF missing # "none" THEN ErrorMessage(missing)
                      ELSE IF call = "throw" THEN ErrorMessage(UnsupportedFormat(dataType))
                      ELSE ExportedMessage(dataType)
        /\ download' = IF file = NoFile THEN download ELSE file
        /\ timers' = IF failed THEN timers ELSE timers + 1
        /\ last' = [op |-> "handleExport", dataType |-> dataType,
                    format |-> selectedFormat,
                    invoked |-> IF failed THEN "none" ELSE call,
                    wrote |-> file # NoFile,
                    includeTimestamp |-> includeTimestamp]
  /\ isProcessing' = FALSE
  /\ UNCHANGED TableVars
  /\ UNCHANGED <<mode, dataType, data, isOpen, selectedFormat, includeTimestamp,
                 pending, imported>>

\* the Cancel button
Cancel ==
  /\ isOpen /\ mode = "export"
  /\ isOpen' = FALSE
  /\ UNCHANGED TableVars
  /\ UNCHANGED <<mode, dataType, data, selectedFormat, includeTimestamp,
                 isProcessing, message, pending, timers, last, download, imported>>

\* a variant of TimerFires in which closing the modal also abandons the
\* imports in flight
TimerFiresCancelling ==
  /\ timers > 0
  /\ timers' = timers - 1
  /\ isOpen' = FALSE
  /\ isProcessing' = FALSE
  /\ UNCHANGED TableVars
  /\ UNCHANGED <<mode, dataType, data, selectedFormat, includeTimestamp,
                 message, pending, last, download, imported>>

\* a close timer set by a successful handler fires: onClose()
TimerFires ==
  /\ timers > 0
  /\ timers' = timers - 1
  /\ isOpen' = FALSE
  /\ UNCHANGED TableVars
  /\ UNCHANGED <<mode, dataType, data, selectedFormat, includeTimestamp,
                 isProcessing, message, pending, last, download, imported>>

\* the parent shows the modal again; the component stayed mounted
Reopen ==
  /\ ~isOpen
  /\ isOpen' = TRUE
  /\ UNCHANGED TableVars
  /\ UNCHANGED <<mode, dataType, data, selectedFormat, includeTimestamp,
                 isProcessing, message, pending, timers, last, download, imported>>

\* the parent renders the modal with another dataType prop
ChangeDataType ==
  /\ \E dt \in DataTypes \ {dataType} : dataType' = dt
  /\ UNCHANGED TableVars
  /\ UNCHANGED <<mode, data, isOpen, selectedFormat, includeTimestamp,
                 isProcessing, message, pending, timers, last, download, imported>>

NextExport ==
  \/ SelectFormat
  \/ ToggleTimestamp
  \/ HandleExport
  \/ Cancel
  \/ TimerFires
  \/ Reopen
  \/ ChangeDataType

SpecExport == InitExport /\ [][NextExport]_vars

NoCsvKinds == {"tickets", "assets", "maintenance"}

CsvRequested ==
  /\ last.op = "handleExport"
  /\ last.format = "csv"
  /\ last.dataType \in NoCsvKinds

\* C2 as stated: with csv selected and dataType tickets, assets or
\* maintenance, handleExport ends with the error message of the unsupported
\* format and invokes no export function.
C2_CsvRefusedAsUnsupportedFormat ==
  CsvRequested =>
    /\ message = ErrorMessage(UnsupportedFormat(last.dataType))
    /\ last.invoked = "none"
    /\ ~last.wrote

\* C2: with csv selected and dataType tickets, assets or maintenance,
\* handleExport ends with an error message and invokes no export function; the
\* message is that of the unsupported format when the collections the data
\* type needs are given, and that of the missing data otherwise.
C2_CsvRefused ==
  CsvRequested =>
    /\ message.type = "error"
    /\ last.invoked = "none"
    /\ ~last.wrote
    /\ message.text = (IF MissingData(last.dataType, data) = "none"
                       THEN UnsupportedFormat(last.dataType)
                       ELSE MissingData(last.dataType, data))

C2_Witness ==
  /\ CsvRequested
  /\ last.dataType = "tickets"
  /\ data.tickets.present /\ data.routes.present
  /\ message = ErrorMessage("CSV export not available for trouble tickets")
  /\ download = NoFile

-----------------------------------------------------------------------------
(* SpecImport: the modal in import mode *)

NamedRow == [name |-> SegmentA, status |-> <<>>, fiberCount |-> 12]
BlankNamedRow == [name |-> <<>>, status |-> critical, fiberCount |-> 0]

\* the files the user picks
ModalFiles ==
  {UserWorkbook(FileXlsx, "labels", <<NamedRow>>),
   UserWorkbook(FileXlsx, "labels", <<BlankNamedRow>>),
   UserWorkbook(FileXlsx, "labels", <<>>),
   CorruptFile(FileXlsx),
   UserCsv(FileCsv, "labels", <<NamedRow, BlankNamedRow>>),
   UserCsv(FileCsv, "labels", <<BlankNamedRow>>),
   UserCsv(FileTxt, "labels", <<NamedRow>>),
   UserWorkbook(FileUpper, "labels", <<NamedRow>>)}

AllData ==
  CHOOSE d \in ModalData :
    d.routes.present /\ d.tickets.present /\ d.assets.present /\ d.maintenance.present

NoImport ==
  [op |-> "none", dataType |-> "none", file |-> NoFile, invoked |-> "none",
   stage |-> "none", called |-> FALSE]

InitImport ==
  /\ mode = "import"
  /\ dataType \in DataTypes
  /\ data = AllData
  /\ isOpen = TRUE
  /\ selectedFormat = "xlsx"
  /\ includeTimestamp = TRUE
  /\ isProcessing = FALSE
  /\ message = NoMessage
  /\ pending = <<>>
  /\ timers = 0
  /\ last = NoImport
  /\ download = NoFile
  /\ imported = NotImported
  /\ TableIdle

\* the change event of the file input without a file: handleImport returns
HandleImportNoFile ==
  /\ isOpen /\ mode = "import"
  /\ UNCHANGED vars

\* handleImport from the change event to its first await, or to its finally
\* block where it throws before awaiting
HandleImport ==
  /\ isOpen /\ mode = "import"
  /\ Len(pending) < MaxPending
  /\ \E file \in ModalFiles :
       LET decoder == IF ImportSupported(dataType) THEN SelectDecoder(file.name)
                      ELSE "none"
       IN IF decoder # "none"
          THEN /\ isProcessing' = TRUE
               /\ message' = NoMessage
               /\ pending' = Append(pending, [file |-> file, decoder |-> decoder,
                                              dataType |-> dataType])
               /\ last' = [op |-> "handleImport", dataType |-> dataType,
                           file |-> file, invoked |-> decoder,
                           stage |-> "awaiting", called |-> FALSE]
          ELSE /\ isProcessing' = FALSE
               /\ message' = ErrorMessage(
                    IF ImportSupported(dataType)
                    THEN "Unsupported file format. Please use .xlsx or .csv files."
                    ELSE "Import is currently only supported for routes")
               /\ pending' = pending
               /\ last' = [op |-> "handleImport", dataType |-> dataType,
                           file |-> file, invoked |-> "none",
                           stage |-> "failed", called |-> FALSE]
  /\ UNCHANGED TableVars
  /\ UNCHANGED <<mode, dataType, data, isOpen, selectedFormat, includeTimestamp,
                 timers, download, imported>>

\* a variant of ImportSucceeds without the test for an empty result
ImportSucceedsIfResolved(result) == result.settled = "resolved"

\* handleImport reaches its success path: the awaited decoder resolved and
\* importedData.length is not 0
ImportSucceeds(result) == result.settled = "resolved" /\ Len(result.routes) # 0

\* a variant of ImportSettles in which the file being read is shared by the
\* invocations: the settling import decodes the file selected last
ImportSettlesSharedFile ==
  /\ timers < MaxTimers
  /\ \E k \in 1..Len(pending), readOk \in BOOLEAN :
       LET p == pending[k]
           shared == IF SelectDecoder(last.file.name) # "none" THEN last.file ELSE p.file
           result == Decode(SelectDecoder(shared.name), shared, readOk)
           ok == ImportSucceeds(result)
       IN /\ imported' = result
          /\ message' = IF result.settled = "rejected" THEN ErrorMessage(result.error)
                        ELSE IF Len(result.routes) = 0
                        THEN ErrorMessage("No valid data found in the file")
                        ELSE ImportedMessage(Len(result.routes), p.dataType)
          /\ timers' = IF ok THEN timers + 1 ELSE timers
          /\ last' = [op |-> "handleImport", dataType |-> p.dataType,
                      file |-> p.file, invoked |-> p.decoder,
                      stage |-> "settled", called |-> ok]
          /\ pending' = [i \in 1..(Len(pending) - 1) |->
                           IF i < k THEN pending[i] ELSE pending[i + 1]]
  /\ isProcessing' = FALSE
  /\ UNCHANGED TableVars
  /\ UNCHANGED <<mode, dataType, data, isOpen, selectedFormat, includeTimestamp,
                 download>>

\* an awaited decoder settles and handleImport runs on to its finally block
ImportSettles ==
  /\ timers < MaxTimers
  /\ \E k \in 1..Len(pending), readOk \in BOOLEAN :
       LET p == pending[k]
           result == Decode(p.decoder, p.file, readOk)
           ok == ImportSucceeds(result)
       IN /\ imported' = result
          /\ message' = IF result.settled = "rejected" THEN ErrorMessage(result.error)
                        ELSE IF Len(result.routes) = 0
                        THEN ErrorMessage("No valid data found in the file")
                        ELSE ImportedMessage(Len(result.routes), p.dataType)
          /\ timers' = IF ok THEN timers + 1 ELSE timers
          /\ last' = [op |-> "handleImport", dataType |-> p.dataType,
                      file |-> p.file, invoked |-> p.decoder,
                      stage |-> "settled", called |-> ok]
          /\ pending' = [i \in 1..(Len(pending) - 1) |->
                           IF i < k THEN pending[i] ELSE pending[i + 1]]
  /\ isProcessing' = FALSE
  /\ UNCHANGED TableVars
  /\ UNCHANGED <<mode, dataType, data, isOpen, selectedFormat, includeTimestamp,
                 download>>

NextImport ==
  \/ HandleImportNoFile
  \/ HandleImport
  \/ ImportSettles
  \/ TimerFires
  \/ Reopen
  \/ ChangeDataType

SpecImport == InitImport /\ [][NextImport]_vars

UnrecognizedName(name) == ~EndsWith(name, dotXlsx) /\ ~EndsWith(name, dotCsv)

\* C3 as stated: an import of a file whose name ends in neither .xlsx nor
\* .csv fails with the message of the unsupported file type, invokes no
\* decoder and does not call onImportComplete.
C3_UnrecognizedExtensionRefused ==
  (last.op = "handleImport" /\ UnrecognizedName(last.file.name)) =>
    /\ message = ErrorMessage("Unsupported file format. Please use .xlsx or .csv files.")
    /\ last.invoked = "none"
    /\ ~last.called

\* C3: an import of a file whose name ends in neither .xlsx nor .csv sets an
\* error message, invokes no decoder and does not call onImportComplete; the
\* message is that of the unsupported file type when dataType is routes.
C3_UnrecognizedExtensionRefusedForRoutes ==
  (last.op = "handleImport" /\ UnrecognizedName(last.file.name)) =>
    /\ message.type = "error"
    /\ last.invoked = "none"
    /\ last.stage = "failed"
    /\ ~last.called
    /\ last.dataType = "routes" =>
         message.text = "Unsupported file format. Please use .xlsx or .csv files."

C3_Witness ==
  /\ last.op = "handleImport"
  /\ last.dataType = "routes"
  /\ last.file.name = FileTxt
  /\ last.stage = "failed"
  /\ message = ErrorMessage("Unsupported file format. Please use .xlsx or .csv files.")

AllBlankNamed ==
  /\ last.op = "handleImport"
  /\ last.stage = "settled"
  /\ imported.settled = "resolved"
  /\ NamedRows(last.file.userRows) = <<>>

\* C4: an import of a well-formed file in which every row has an empty or
\* absent name ends with the error message 'No valid data found in the file'
\* and without a call of onImportComplete, for both decoders.
C4_AllBlankNamesIsEmptyImport ==
  AllBlankNamed =>
    /\ message = ErrorMessage("No valid data found in the file")
    /\ ~last.called

\* C6: an import for a dataType other than routes, whatever the file, sets
\* the error message of the unsupported import kind, invokes no decoder and
\* never calls onImportComplete.
C6_ImportOnlyForRoutes ==
  (last.op = "handleImport" /\ last.dataType # "routes") =>
    /\ message = ErrorMessage("Import is currently only supported for routes")
    /\ last.invoked = "none"
    /\ last.stage = "failed"
    /\ ~last.called

C6_Witness ==
  /\ last.op = "handleImport"
  /\ last.dataType = "tickets"
  /\ last.file = UserWorkbook(FileXlsx, "labels", <<NamedRow>>)
  /\ message = ErrorMessage("Import is currently only supported for routes")
  /\ ~last.called

-----------------------------------------------------------------------------
(* Claims on SpecExport: missing data and the name of the bulk file *)

\* the collections an export of a data type needs: its own and, for tickets,
\* assets and maintenance, the routes; all four for the bulk export
Required(dt) ==
  CASE dt = "routes" -> {"routes"}
    [] dt = "tickets" -> {"tickets", "routes"}
    [] dt = "assets" -> {"assets", "routes"}
    [] dt = "maintenance" -> {"maintenance", "routes"}
    [] OTHER -> {"routes", "tickets", "assets", "maintenance"}

SomeRequiredAbsent(dt) == \E k \in Required(dt) : ~data[k].present

MissingDataTexts ==
  {"No routes data available", "No tickets data available",
   "No assets data available", "No maintenance data available",
   "Incomplete data for full export"}

\* C11: when a collection that the requested export needs is absent,
\* handleExport ends with the error message of the missing data, invokes no
\* export function, writes no file and shows no success message.
C11_MissingDataRefused ==
  (last.op = "handleExport" /\ SomeRequiredAbsent(last.dataType)) =>
    /\ message.type = "error"
    /\ message.text \in MissingDataTexts
    /\ last.invoked = "none"
    /\ ~last.wrote

C11_Witness ==
  /\ last.op = "handleExport"
  /\ last.dataType = "tickets"
  /\ last.format = "xlsx"
  /\ data.tickets.present /\ ~data.routes.present
  /\ message = ErrorMessage("No tickets data available")
  /\ download = NoFile

-----------------------------------------------------------------------------
(* SpecNames: the per-kind export functions applied with every shape of    *)
(* the options argument                                                    *)

MyName == <<"m", "y">>

\* ExportOptions: each field given or left out
OptionsUniverse ==
  {(IF fn THEN "filename" :> MyName ELSE <<>>)
   @@ (IF ts = "unset" THEN <<>> ELSE "includeTimestamp" :> (ts = "true"))
   @@ (IF ti THEN "title" :> <<"My", " Report">> ELSE <<>>) :
     fn \in BOOLEAN, ts \in {"unset", "true", "false"}, ti \in BOOLEAN}

EmptyData ==
  [routes |-> Present(<<>>), tickets |-> Present(<<>>), assets |-> Present(<<>>),
   maintenance |-> Present(<<>>)]

PerKindExports ==
  {"exportRoutesToXLSX", "exportRoutesToCSV", "exportRoutesToPDF",
   "exportTroubleTicketsToXLSX", "exportTroubleTicketsToPDF",
   "exportAssetsToXLSX", "exportAssetsToPDF",
   "exportMaintenanceToXLSX", "exportMaintenanceToPDF"}

InitNames ==
  /\ mode = "export"
  /\ dataType = "routes"
  /\ data \in {AllData, EmptyData}
  /\ isOpen = TRUE
  /\ selectedFormat = "xlsx"
  /\ includeTimestamp = TRUE
  /\ isProcessing = FALSE
  /\ message = NoMessage
  /\ pending = <<>>
  /\ timers = 0
  /\ \E o \in OptionsUniverse : last = [op |-> "none", options |-> o]
  /\ download = NoFile
  /\ imported = NotImported
  /\ TableIdle

\* a per-kind export function called with the options
RunExportWithOptions ==
  /\ last.op = "none"
  /\ \E call \in PerKindExports :
       /\ download' = ExportFile(call, data, last.options, "xlsx")
       /\ last' = [op |-> call, options |-> last.options]
  /\ UNCHANGED imported
  /\ ModalUnchanged

NextNames == RunExportWithOptions

SpecNames == InitNames /\ [][NextNames]_vars

KindDefault(call) ==
  CASE call \in {"exportRoutesToXLSX", "exportRoutesToCSV", "exportRoutesToPDF"} ->
         RoutesExportName
    [] call \in {"exportTroubleTicketsToXLSX", "exportTroubleTicketsToPDF"} ->
         TicketsExportName
    [] call \in {"exportAssetsToXLSX", "exportAssetsToPDF"} -> AssetsExportName
    [] OTHER -> MaintenanceExportName

Extension(call) ==
  CASE call = "exportRoutesToCSV" -> dotCsv
    [] call \in {"exportRoutesToPDF", "exportTroubleTicketsToPDF",
                 "exportAssetsToPDF", "exportMaintenanceToPDF"} -> dotPdf
    [] OTHER -> dotXlsx

DateSuffix == <<"_">> \o Today

\* C12: every per-kind export function names its file
\* <options.filename or the kind's default><suffix>.<ext>, the suffix being
\* _<date> when includeTimestamp is true and empty when it is false or unset.
C12_FileNameContract ==
  (last.op \in PerKindExports) =>
    download.name =
      (IF "filename" \in DOMAIN last.options THEN last.options.filename
       ELSE KindDefault(last.op))
      \o (IF "includeTimestamp" \in DOMAIN last.options
             /\ last.options.includeTimestamp = TRUE
          THEN DateSuffix ELSE <<>>)
      \o Extension(last.op)

C12_Witness ==
  /\ last.op = "exportMaintenanceToXLSX"
  /\ "filename" \in DOMAIN last.options
  /\ "includeTimestamp" \notin DOMAIN last.options
  /\ download.name = MyName \o dotXlsx

-----------------------------------------------------------------------------
(* Claims on SpecExport: the name of the bulk file *)

BulkWritten ==
  /\ last.op = "handleExport"
  /\ last.dataType = "all"
  /\ last.wrote

BulkBaseName == SubSeq(CompleteExportName, 1, Len(CompleteExportName) - 1)

\* C13: the file written for dataType all carries the date suffix when
\* includeTimestamp is checked in the modal and no suffix when it is
\* unchecked, as the per-kind exports do.
C13_BulkNameFollowsTimestampOption ==
  BulkWritten =>
    download.name =
      BulkBaseName
      \o (IF last.includeTimestamp THEN DateSuffix ELSE <<>>)
      \o (IF last.format = "pdf" THEN dotPdf ELSE dotXlsx)

-----------------------------------------------------------------------------
(* Claims on SpecRefs: what the bulk export contains *)

Kinds == {"routes", "assets", "tickets", "maintenance"}

SheetNameOf(kind) ==
  CASE kind = "routes" -> "Routes"
    [] kind = "assets" -> "Assets"
    [] kind = "tickets" -> "Trouble Tickets"
    [] OTHER -> "Maintenance"

HasSheet(file, name) == \E i \in 1..Len(file.sheets) : file.sheets[i].name = name

BulkWorkbookWritten == last.op = "exportAllData" /\ download.kind = "xlsx"

\* C14: the workbook written by exportAllData has a sheet for a record kind
\* if and only if that kind's collection is non-empty.
C14_BulkSheetIffNonEmpty ==
  BulkWorkbookWritten =>
    \A kind \in Kinds :
      HasSheet(download, SheetNameOf(kind)) <=> Len(data[kind].items) > 0

BulkReportWritten == last.op = "exportAllData" /\ download.kind = "pdf"

Min(a, b) == IF a < b THEN a ELSE b

\* the summary tables of the report that show records of a kind, told by
\* their first heading
TablesOf(file, kind) ==
  {i \in 1..Len(file.tables) :
     file.tables[i].head[1] =
       (CASE kind = "routes" -> "Route"
          [] kind = "assets" -> "Asset #"
          [] kind = "tickets" -> "Ticket #"
          [] OTHER -> "Maintenance #")}

\* C15: the report written by exportAllData carries the four counts and then
\* one summary table for each non-empty record kind, with
\* min(10, number of records) rows.
C15_BulkReportTablePerKind ==
  BulkReportWritten =>
    /\ \A kind \in Kinds : download.counts[kind] = Len(data[kind].items)
    /\ Len(download.tables) = Cardinality({kind \in Kinds : Len(data[kind].items) > 0})
    /\ \A kind \in Kinds :
         IF Len(data[kind].items) > 0
         THEN \E i \in TablesOf(download, kind) :
                Len(download.tables[i].body) = Min(10, Len(data[kind].items))
         ELSE TablesOf(download, kind) = {}

-----------------------------------------------------------------------------
(* SpecResolve: the decoders applied to files that carry a field under its *)
(* column label and under its fallback key at once                         *)

\* a row with a status and a fiber count under the label and under the
\* fallback key, each given or left blank
BothRows ==
  {[name |-> SegmentA, status |-> st, keyStatus |-> kst,
    fiberCount |-> fc, keyFiberCount |-> kfc] :
     st \in {<<>>, critical}, kst \in {<<>>, maintenanceText},
     fc \in {Undefined, Num(0), Num(12)}, kfc \in {Undefined, Num(7)}}

BothHeader == <<"Route Name", "Status", "status", "Fiber Count", "fiberCount">>

\* a workbook with both columns: a blank value leaves no cell
BothWorkbook(rows) ==
  LET text(label, s) == IF s # <<>> THEN label :> Str(s) ELSE <<>>
      number(label, v) == IF v # Undefined THEN label :> v ELSE <<>>
      cells(r) == text("Route Name", r.name)
                  @@ text("Status", r.status) @@ text("status", r.keyStatus)
                  @@ number("Fiber Count", r.fiberCount)
                  @@ number("fiberCount", r.keyFiberCount)
  IN [kind |-> "xlsx", name |-> FileXlsx, userRows |-> rows,
      sheets |-> <<[name |-> "Sheet1", header |-> BothHeader,
                    rows |-> [i \in 1..Len(rows) |-> cells(rows[i])]]>>]

\* a delimited-text file with both columns: a blank value is an empty field
BothCsv(rows) ==
  LET number(v) == IF v = Undefined THEN <<>> ELSE IntText(v.n)
  IN [kind |-> "csv", name |-> FileCsv, userRows |-> rows,
      csv |-> [header |-> BothHeader,
               lines |-> [i \in 1..Len(rows) |->
                           <<rows[i].name, rows[i].status, rows[i].keyStatus,
                             number(rows[i].fiberCount),
                             number(rows[i].keyFiberCount)>>]]]

BothFiles ==
  {BothWorkbook(rows) : rows \in SeqsUpTo(BothRows, MaxRows) \ {<<>>}}
  \cup {BothCsv(rows) : rows \in SeqsUpTo(BothRows, MaxRows) \ {<<>>}}

InitResolve ==
  /\ mode = "import"
  /\ dataType = "routes"
  /\ data = [routes |-> Absent, tickets |-> Absent, assets |-> Absent,
             maintenance |-> Absent]
  /\ isOpen = TRUE
  /\ selectedFormat = "xlsx"
  /\ includeTimestamp = TRUE
  /\ isProcessing = FALSE
  /\ message = NoMessage
  /\ pending = <<>>
  /\ timers = 0
  /\ \E f \in BothFiles : last = [op |-> "none", file |-> f]
  /\ download = NoFile
  /\ imported = NotImported
  /\ TableIdle

SpecResolve == InitResolve /\ [][NextDecode]_vars

\* label first, then fallback key, then default
Resolve(label, key, default) ==
  IF label # Undefined THEN label ELSE IF key # Undefined THEN key ELSE default

TextCell(s) == IF s = <<>> THEN Undefined ELSE Str(s)

\* C16: for each target field both decoders take the value under the column
\* label when the row has it, otherwise the value under the fallback key,
\* otherwise the typed default; a label value that is present is never
\* overridden by the fallback key or the default.
C16_LabelThenKeyThenDefault ==
  Decoded =>
    /\ Len(imported.routes) = Len(last.file.userRows)
    /\ \A i \in 1..Len(imported.routes) :
         LET row == last.file.userRows[i]
             route == imported.routes[i]
         IN /\ route.name = Str(row.name)
            /\ route.status = Resolve(TextCell(row.status), TextCell(row.keyStatus),
                                      Str(operational))
            /\ route.fiberCount = Resolve(row.fiberCount, row.keyFiberCount, Num(0))
            /\ route.troubleTickets = Num(0)
            /\ route.assets = [handhole |-> Num(0), odc |-> Num(0), pole |-> Num(0),
                               jc |-> Num(0)]
            /\ route.lastMaintenance = Str(Today)
            /\ route.nextMaintenance = Str(Today)
            /\ route.location = [start |-> Str(<<>>), end |-> Str(<<>>)]
            /\ route.links = <<>>

-----------------------------------------------------------------------------
(* SpecMaterials: the ticket workbook for tickets with several             *)
(* material-usage entries                                                  *)

MaxUsage == 2

\* the i-th ticket of a collection: its own number, a route reference and a
\* number of material-usage entries told apart by their quantity
TicketWith(i, ref, k) ==
  [OneTicket EXCEPT !.ticketNumber = <<"T", "-">> \o NatText(i),
                    !.routeId = ref,
                    !.materialUsage =
                      [j \in 1..k |-> [MaterialOf("present") EXCEPT !.quantity = j]]]

MaterialTickets ==
  UNION {{[i \in 1..n |-> TicketWith(i, refs[i], ks[i])] :
            refs \in [1..n -> RouteRefs], ks \in [1..n -> 0..MaxUsage]} :
         n \in 0..MaxRecords}

InitMaterials ==
  /\ mode = "export"
  /\ dataType = "tickets"
  /\ \E ts \in MaterialTickets :
       data = [routes |-> Present(<<WithId(NamedRoute, 1)>>), tickets |-> Present(ts),
               assets |-> Present(<<>>), maintenance |-> Present(<<>>)]
  /\ isOpen = TRUE
  /\ selectedFormat = "xlsx"
  /\ includeTimestamp \in BOOLEAN
  /\ isProcessing = FALSE
  /\ message = NoMessage
  /\ pending = <<>>
  /\ timers = 0
  /\ last = Idle
  /\ download = NoFile
  /\ imported = NotImported
  /\ TableIdle

NextMaterials == RunExportTicketsXLSX

SpecMaterials == InitMaterials /\ [][NextMaterials]_vars

\* the (ticket, entry) index pairs of all material-usage entries, in ticket
\* order then entry order
RECURSIVE UsagePairs(_, _)
UsagePairs(tickets, i) ==
  IF i > Len(tickets) THEN <<>>
  ELSE [j \in 1..Len(tickets[i].materialUsage) |-> <<i, j>>]
       \o UsagePairs(tickets, i + 1)

ResolvedRouteName(routeId) ==
  IF \E r \in 1..Len(data.routes.items) : data.routes.items[r].id = routeId
  THEN data.routes.items[CHOOSE r \in 1..Len(data.routes.items) :
                           data.routes.items[r].id = routeId].name
  ELSE UnknownRoute

TicketWorkbookWritten == last.op = "exportTroubleTicketsToXLSX"

\* C17: the ticket workbook always has the 'Trouble Tickets' sheet with one
\* row per ticket; its 'Material Usage' sheet has one row per material-usage
\* entry over all tickets, in ticket order then entry order, each with its
\* parent ticket's number and resolved route name, and is left out exactly
\* when there is no entry.
C17_MaterialUsageSheet ==
  TicketWorkbookWritten =>
    LET pairs == UsagePairs(Tickets, 1)
    IN /\ download.sheets[1].name = "Trouble Tickets"
       /\ Len(download.sheets[1].rows) = Len(Tickets)
       /\ IF pairs = <<>> THEN Len(download.sheets) = 1
          ELSE /\ Len(download.sheets) = 2
               /\ download.sheets[2].name = "Material Usage"
               /\ Len(download.sheets[2].rows) = Len(pairs)
               /\ \A p \in 1..Len(pairs) :
                    LET ticket == Tickets[pairs[p][1]]
                        row == download.sheets[2].rows[p]
                    IN /\ row["Ticket Number"] = Str(ticket.ticketNumber)
                       /\ row["Route"] = Str(ResolvedRouteName(ticket.routeId))
                       /\ row["Quantity"] = Num(pairs[p][2])

C17_Witness ==
  /\ TicketWorkbookWritten
  /\ Len(Tickets) = 2
  /\ Len(Tickets[1].materialUsage) = 2
  /\ Len(Tickets[2].materialUsage) = 1
  /\ Len(download.sheets) = 2
  /\ Len(download.sheets[2].rows) = 3
  /\ download.sheets[2].rows[3]["Ticket Number"] = Str(<<"T", "-", "2">>)

-----------------------------------------------------------------------------
(* Claims on SpecRefs: derived columns *)

\* "<h>h <r>m" from an hour on, "<m>m" below
DurationText(m) ==
  IF m >= 60 THEN NatText(m \div 60) \o <<"h", " ">> \o NatText(m % 60) \o <<"m">>
  ELSE NatText(m) \o <<"m">>

\* C18: the 'Total Duration' column of a ticket is "<h>h <r>m" or "<m>m" for
\* every present totalDuration of m >= 0 minutes, and "N/A" only when
\* totalDuration is absent.
C18_TotalDurationFormat ==
  (last.op = "exportTroubleTicketsToXLSX") =>
    \A i \in 1..Len(Tickets) :
      download.sheets[1].rows[i]["Total Duration"] =
        (IF Tickets[i].totalDuration = Undefined THEN Str(NA)
         ELSE Str(DurationText(Tickets[i].totalDuration.n)))

\* round(100 * true entries / entries), by halves up
RoundedPercent(checklist) ==
  LET total == Len(checklist)
      done == Cardinality({i \in 1..total : checklist[i]})
  IN (200 * done + total) \div (2 * total)

\* C19: the 'Completeness (%)' of every asset is
\* round(100 * true entries / entries), an integer between 0 and 100 and never
\* NaN, for every checklist size, the empty checklist included.
C19_CompletenessIsPercentage ==
  (last.op = "exportAssetsToXLSX") =>
    \A i \in 1..Len(Assets) :
      LET cell == download.sheets[1].rows[i]["Completeness (%)"]
      IN /\ cell.t = "number"
         /\ cell.n \in 0..100
         /\ Len(Assets[i].completeness) > 0 =>
              cell.n = RoundedPercent(Assets[i].completeness)

-----------------------------------------------------------------------------
(* Claims on SpecImport: imports in flight together *)

\* what an import of a file can end with, from the file alone: the decoder
\* its name selects, applied to it, with the read succeeding or failing
OwnOutcomes(file) ==
  {Decode(SelectDecoder(file.name), file, readOk) : readOk \in BOOLEAN}

ImportSettled == last.op = "handleImport" /\ last.stage = "settled"

\* C20: imports share no mutable state: the outcome of an import that has
\* settled, be it the records passed to onImportComplete or its error, is an
\* outcome of its own file, whatever other imports were in flight and
\* whatever the order in which they settle, and onImportComplete is called
\* for it exactly when that outcome is a non-empty list of records.
C20_ImportOutcomeFromOwnFile ==
  ImportSettled =>
    /\ imported \in OwnOutcomes(last.file)
    /\ last.called <=> (imported.settled = "resolved" /\ Len(imported.routes) > 0)
    /\ message = (IF imported.settled = "rejected" THEN ErrorMessage(imported.error)
                  ELSE IF Len(imported.routes) = 0
                  THEN ErrorMessage("No valid data found in the file")
                  ELSE ImportedMessage(Len(imported.routes), "routes"))

C20_Witness ==
  /\ ImportSettled
  /\ last.called
  /\ last.file = UserCsv(FileCsv, "labels", <<NamedRow, BlankNamedRow>>)
  /\ Len(imported.routes) = 1
  /\ Len(pending) = 1
  /\ pending[1].file = UserWorkbook(FileXlsx, "labels", <<NamedRow>>)

-----------------------------------------------------------------------------
(* Claims on SpecImport: failures, stalled reads and the callback *)

FailureTexts == {"Failed to read file", "Failed to parse Excel file", "Failed to parse CSV file"}

\* C21: nothing is retried. A file selection invokes one decoder once and a
\* settling import leaves the imports in flight for good; a read or parse
\* failure rejects the import, and the same invocation sets the failure as
\* the error message, does not call onImportComplete and resets isProcessing.
C21_FailureReportedOnceNoRetry ==
  /\ [](  (ImportSettled /\ (last.file.kind = "corrupt" \/ imported.settled = "rejected"))
          => /\ imported.settled = "rejected"
             /\ imported.error \in FailureTexts
             /\ message = ErrorMessage(imported.error)
             /\ ~last.called
             /\ ~isProcessing)
  /\ [][ /\ Len(pending') > Len(pending) =>
              /\ Len(pending') = Len(pending) + 1
              /\ last'.stage = "awaiting"
              /\ last'.invoked \in {"importRoutesFromXLSX", "importRoutesFromCSV"}
         /\ Len(pending') < Len(pending) =>
              /\ Len(pending') = Len(pending) - 1
              /\ last'.stage = "settled" ]_vars

C21_Witness ==
  /\ ImportSettled
  /\ last.file = CorruptFile(FileXlsx)
  /\ imported = Rejected("Failed to parse Excel file")
  /\ message = ErrorMessage("Failed to parse Excel file")
  /\ ~last.called
  /\ ~isProcessing
  /\ pending = <<>>

\* C22: there is no timeout and no cancellation. While an import awaits its
\* read, nothing but a signal of that read or a new file selection changes
\* isProcessing or the message, delivers records or starts a close timer; the
\* modal with a single import awaiting shows isProcessing and no message, and
\* onImportComplete has not been called.
C22_StalledReadStaysProcessing ==
  /\ []((last.op = "handleImport" /\ last.stage = "awaiting")
        => isProcessing /\ message = NoMessage /\ ~last.called /\ pending # <<>>)
  /\ [][(pending # <<>> /\ pending' = pending /\ last' = last)
        => /\ isProcessing' = isProcessing
           /\ message' = message
           /\ imported' = imported
           /\ timers' <= timers]_vars

C22_Witness ==
  /\ last.op = "handleImport"
  /\ last.stage = "awaiting"
  /\ Len(pending) = 1
  /\ ~isOpen
  /\ timers = 0
  /\ isProcessing
  /\ message = NoMessage

\* C24: whenever an import started through the modal has not settled,
\* isProcessing is true.
C24_ProcessingWhileImportInFlight ==
  pending # <<>> => isProcessing

\* C25: onImportComplete is called only with a non-empty record array and
\* only in an invocation that set the success message, never in one that ends
\* with an error message; each call takes one file selection out of flight,
\* so no selection is answered twice.
C25_CallbackOnlyOnSuccess ==
  /\ []((last.op = "handleImport" /\ last.called)
        => /\ last.stage = "settled"
           /\ imported.settled = "resolved"
           /\ Len(imported.routes) > 0
           /\ message = ImportedMessage(Len(imported.routes), last.dataType))
  /\ []((last.op = "handleImport" /\ message.type = "error") => ~last.called)
  /\ [][(last'.called /\ last' # last) => Len(pending') = Len(pending) - 1]_vars

C25_Witness ==
  /\ ImportSettled
  /\ last.called
  /\ last.file = UserWorkbook(FileXlsx, "labels", <<NamedRow>>)
  /\ imported.routes = <<RowToRoute(last.file.sheets[1].rows[1])>>
  /\ message = ImportedMessage(1, "routes")

\* C26: the close timer is started only by a handler that ended in success,
\* and when a close timer fires the message shown is a success message.
C26_CloseOnlyOnSuccessShown ==
  [][/\ timers' > timers => message'.type = "success"
     /\ timers' < timers => message.type = "success"]_vars

-----------------------------------------------------------------------------
(* SpecExportFixed: the modal in export mode under a dataType prop that    *)
(* does not change                                                         *)

NextExportFixed ==
  \/ SelectFormat
  \/ ToggleTimestamp
  \/ HandleExport
  \/ Cancel
  \/ TimerFires
  \/ Reopen

SpecExportFixed == InitExport /\ [][NextExportFixed]_vars

Offered(dt) == IF dt = "routes" THEN {"xlsx", "csv", "pdf"} ELSE {"xlsx", "pdf"}

\* C23: under a fixed dataType, selectedFormat is always one of the formats
\* offered for that dataType; handleExport never shows the success message
\* without having invoked an export function that wrote a file, and
\* exportAllData is never called with csv.
C23_SelectedFormatIsOffered ==
  /\ selectedFormat \in Offered(dataType)
  /\ (last.op = "handleExport" /\ message.type = "success")
       => last.invoked # "none" /\ last.wrote
  /\ ~(last.op = "handleExport" /\ last.invoked = "exportAllData" /\ last.format = "csv")

C23_Witness ==
  /\ dataType = "all"
  /\ selectedFormat = "pdf"
  /\ last.op = "handleExport"
  /\ last.invoked = "exportAllData"
  /\ last.format = "pdf"
  /\ last.wrote
  /\ message = ExportedMessage("all")
  /\ download.kind = "pdf"

-----------------------------------------------------------------------------
(* TrafficTable: the rows of a route's traffic list, a row being edited in
   place and the draft of a new row.  The parent holds the list: it renders
   the table with the list last passed to onTrafficUpdate. *)

MaxTraffic == 2       \* rows in the list
MaxClock == 1         \* clock values after mount

\* the route prop
route == [id |-> RouteId(1)]

\* rsl is counted in steps of 1/8 dB: -20 dBm
Rsl20 == -20 * 8

\* (Math.random() - 0.5) * 0.5 lies in [-0.25, 0.25): one step down or up
Drift == {-1, 1}

\* the rsl values followed
RslValues == {Rsl20 - 1, Rsl20, Rsl20 + 1}

\* `traffic-${Date.now()}`
TrafficId(t) == <<"t","r","a","f","f","i","c","-">> \o NatText(t)

\* new Date().toISOString()
toISOString(t) == <<"T">> \o NatText(t) \o <<"Z">>

\* n || d for numbers
NumOr(n, d) == IF n = 0 THEN d ELSE n

\* s || d for fixed texts
TextOr(s, d) == IF s = "" THEN d ELSE s

\* a row the parent holds at mount
SeedRow(k) ==
  [id |-> <<"s">> \o NatText(k), routeId |-> route.id,
   trafficName |-> <<"n">>, rsl |-> Rsl20, otdrDistance |-> 0,
   portNumber |-> <<"p">>, linkPointA |-> <<"a">>, linkPointB |-> <<"b">>,
   selectedRoute |-> "A", status |-> "active", totalLoss |-> 0,
   lossPerKm |-> 0, length |-> 0, protocol |-> "Ethernet",
   lastUpdate |-> toISOString(0)]

SeedList(n) == [k \in 1..n |-> SeedRow(k)]

\* the values the form inputs hand to updateNewTraffic
DraftInputs ==
  {[field |-> f, value |-> <<"x">>] :
     f \in {"trafficName", "portNumber", "linkPointA", "linkPointB"}}
  \cup {[field |-> "trafficName", value |-> <<>>]}

\* the values the row inputs hand to updateEditingData
EditInputs ==
  <<[field |-> "trafficName", value |-> <<"y">>],
    [field |-> "rsl", value |-> Rsl20 + 1]>>

\* what the most recent handler did: whether it called onTrafficUpdate, and
\* the fields changed through updateEditingData since startEditing
Handled(op, called, changed) ==
  [op |-> op, called |-> called, changed |-> changed]

InitTraffic ==
  /\ mode = "export"
  /\ dataType = "routes"
  /\ data = [routes |-> Present(<<>>), tickets |-> Present(<<>>),
             assets |-> Present(<<>>), maintenance |-> Present(<<>>)]
  /\ isOpen = FALSE
  /\ selectedFormat = "xlsx"
  /\ includeTimestamp = TRUE
  /\ isProcessing = FALSE
  /\ message = NoMessage
  /\ pending = <<>>
  /\ timers = 0
  /\ last = Handled("mount", FALSE, {})
  /\ download = NoFile
  /\ imported = NotImported
  /\ \E n \in 0..MaxTraffic : trafficData = SeedList(n)
  /\ editingId = Null
  /\ editingData = Null
  /\ newTraffic = Null
  /\ now = 0

TableFrame ==
  UNCHANGED <<mode, dataType, data, isOpen, selectedFormat, includeTimestamp,
              isProcessing, message, pending, timers, download, imported>>

\* the clock advances between two handlers
Tick ==
  /\ now < MaxClock
  /\ now' = now + 1
  /\ last' = Handled("tick", FALSE, last.changed)
  /\ UNCHANGED <<trafficData, editingId, editingData, newTraffic>>
  /\ TableFrame

\* trafficData.map(traffic => ({...traffic, rsl: ..., lastUpdate: ...}))
Refreshed(list, d, t) ==
  [i \in 1..Len(list) |->
     [list[i] EXCEPT !.rsl = @ + d[i], !.lastUpdate = toISOString(t)]]

refreshTraffic ==
  \E d \in [1..Len(trafficData) -> Drift] :
    LET refreshedTraffic == Refreshed(trafficData, d, now) IN
    /\ \A i \in 1..Len(trafficData) : refreshedTraffic[i].rsl \in RslValues
    /\ trafficData' = refreshedTraffic
    /\ last' = Handled("refreshTraffic", TRUE, last.changed)
    /\ UNCHANGED <<editingId, editingData, newTraffic, now>>
    /\ TableFrame

\* the Edit button of a row that is not in editing mode
startEditing ==
  \E i \in 1..Len(trafficData) :
    /\ editingId # Some(trafficData[i].id)
    /\ editingId' = Some(trafficData[i].id)
    /\ editingData' = Some(trafficData[i])
    /\ last' = Handled("startEditing", FALSE, {})
    /\ UNCHANGED <<trafficData, newTraffic, now>>
    /\ TableFrame

\* trafficData.map(traffic => traffic.id === editingData.id ? editingData : traffic)
Replaced(list, edited) ==
  [i \in 1..Len(list) |-> IF list[i].id = edited.id THEN edited ELSE list[i]]

\* the Save button of a row in editing mode
saveEditing ==
  /\ editingId # Null
  /\ IF editingData # Null
       THEN /\ trafficData' = Replaced(trafficData, editingData.value)
            /\ editingId' = Null
            /\ editingData' = Null
            /\ last' = Handled("saveEditing", TRUE, last.changed)
       ELSE /\ UNCHANGED <<trafficData, editingId, editingData>>
            /\ last' = Handled("saveEditing", FALSE, last.changed)
  /\ UNCHANGED <<newTraffic, now>>
  /\ TableFrame

cancelEditingIdOnly ==
  /\ editingId # Null
  /\ editingId' = Null
  /\ last' = Handled("cancelEditing", FALSE, last.changed)
  /\ UNCHANGED <<trafficData, editingData, newTraffic, now>>
  /\ TableFrame

\* the Cancel button of a row in editing mode
cancelEditing ==
  /\ editingId # Null
  /\ editingId' = Null
  /\ editingData' = Null
  /\ last' = Handled("cancelEditing", FALSE, last.changed)
  /\ UNCHANGED <<trafficData, newTraffic, now>>
  /\ TableFrame

updateEditingData ==
  \E k \in 1..Len(EditInputs) :
    LET in == EditInputs[k] IN
    /\ editingData # Null
    /\ editingData' = Some([editingData.value EXCEPT ![in.field] = in.value])
    /\ last' = Handled("updateEditingData", FALSE, last.changed \cup {in.field})
    /\ UNCHANGED <<trafficData, editingId, newTraffic, now>>
    /\ TableFrame

\* trafficData.filter(traffic => traffic.id !== trafficId)
Without(list, trafficId) ==
  SelectSeq(list, LAMBDA traffic : traffic.id # trafficId)

\* the Delete button of a row that is not in editing mode
deleteTraffic ==
  \E i \in 1..Len(trafficData) :
    /\ editingId # Some(trafficData[i].id)
    /\ trafficData' = Without(trafficData, trafficData[i].id)
    /\ last' = Handled("deleteTraffic", TRUE, last.changed)
    /\ UNCHANGED <<editingId, editingData, newTraffic, now>>
    /\ TableFrame

\* the Add button, rendered while there is no draft
addNewTraffic ==
  /\ newTraffic = Null
  /\ newTraffic' = Some(
       [routeId |-> route.id, trafficName |-> <<>>, rsl |-> Rsl20,
        otdrDistance |-> 0, portNumber |-> <<>>, linkPointA |-> <<>>,
        linkPointB |-> <<>>, selectedRoute |-> "A", status |-> "active",
        totalLoss |-> 0, lossPerKm |-> 0, length |-> 0,
        protocol |-> "Ethernet", lastUpdate |-> toISOString(now)])
  /\ last' = Handled("addNewTraffic", FALSE, last.changed)
  /\ UNCHANGED <<trafficData, editingId, editingData, now>>
  /\ TableFrame

updateNewTraffic ==
  \E in \in DraftInputs :
    /\ newTraffic # Null
    /\ newTraffic' = Some([newTraffic.value EXCEPT ![in.field] = in.value])
    /\ last' = Handled("updateNewTraffic", FALSE, last.changed)
    /\ UNCHANGED <<trafficData, editingId, editingData, now>>
    /\ TableFrame

cancelNewTraffic ==
  /\ newTraffic # Null
  /\ newTraffic' = Null
  /\ last' = Handled("cancelNewTraffic", FALSE, last.changed)
  /\ UNCHANGED <<trafficData, editingId, editingData, now>>
  /\ TableFrame

DraftCompleteNameOnly(draft) ==
  /\ draft # Null
  /\ draft.value.trafficName # <<>>

\* newTraffic && newTraffic.trafficName && newTraffic.portNumber &&
\* newTraffic.linkPointA && newTraffic.linkPointB
DraftComplete(draft) ==
  /\ draft # Null
  /\ draft.value.trafficName # <<>>
  /\ draft.value.portNumber # <<>>
  /\ draft.value.linkPointA # <<>>
  /\ draft.value.linkPointB # <<>>

\* the record saveNewTraffic builds from the draft
NewRecord(draft, t) ==
  [id |-> TrafficId(t), routeId |-> route.id,
   trafficName |-> draft.trafficName, rsl |-> NumOr(draft.rsl, Rsl20),
   otdrDistance |-> NumOr(draft.otdrDistance, 0),
   portNumber |-> draft.portNumber, linkPointA |-> draft.linkPointA,
   linkPointB |-> draft.linkPointB,
   selectedRoute |-> TextOr(draft.selectedRoute, "A"),
   status |-> TextOr(draft.status, "active"),
   totalLoss |-> NumOr(draft.totalLoss, 0),
   lossPerKm |-> NumOr(draft.lossPerKm, 0), length |-> NumOr(draft.length, 0),
   protocol |-> TextOr(draft.protocol, "Ethernet"),
   lastUpdate |-> toISOString(t)]

\* the Save button of the draft form
saveNewTraffic ==
  /\ newTraffic # Null
  /\ Len(trafficData) < MaxTraffic
  /\ IF DraftComplete(newTraffic)
       THEN /\ trafficData' = Append(trafficData, NewRecord(newTraffic.value, now))
            /\ newTraffic' = Null
            /\ last' = Handled("saveNewTraffic", TRUE, last.changed)
       ELSE /\ UNCHANGED <<trafficData, newTraffic>>
            /\ last' = Handled("saveNewTraffic", FALSE, last.changed)
  /\ UNCHANGED <<editingId, editingData, now>>
  /\ TableFrame

NextTrafficDraft ==
  \/ Tick
  \/ addNewTraffic
  \/ updateNewTraffic
  \/ saveNewTraffic
  \/ cancelNewTraffic
  \/ deleteTraffic

\* the table with the draft form in use
SpecTrafficDraft == InitTraffic /\ [][NextTrafficDraft]_vars

NextTrafficEdit ==
  \/ Tick
  \/ refreshTraffic
  \/ startEditing
  \/ updateEditingData
  \/ saveEditing
  \/ cancelEditing
  \/ deleteTraffic

\* the table with rows edited in place, refreshed and deleted
SpecTrafficEdit == InitTraffic /\ [][NextTrafficEdit]_vars

-----------------------------------------------------------------------------
(* Claims about TrafficTable *)

DistinctIds(list) ==
  \A i, j \in 1..Len(list) : i # j => list[i].id # list[j].id

\* C27: starting from a list with pairwise distinct ids, every list passed to
\* onTrafficUpdate has pairwise distinct ids, also when two saveNewTraffic
\* calls read the same clock value.
C27_IdsPairwiseDistinct == last.called => DistinctIds(trafficData)

\* C28: saveNewTraffic calls onTrafficUpdate exactly when the draft's
\* trafficName, portNumber, linkPointA and linkPointB are all non-empty; it then
\* passes the existing list, unchanged, followed by one new record with
\* routeId = route.id, and clears the draft.  With one of the four empty it
\* does not call onTrafficUpdate and leaves the list and the draft as they are.
C28_SaveNewTrafficEffect ==
  [][last'.op = "saveNewTraffic" =>
       IF /\ newTraffic # Null
          /\ newTraffic.value.trafficName # <<>>
          /\ newTraffic.value.portNumber # <<>>
          /\ newTraffic.value.linkPointA # <<>>
          /\ newTraffic.value.linkPointB # <<>>
         THEN /\ last'.called
              /\ Len(trafficData') = Len(trafficData) + 1
              /\ SubSeq(trafficData', 1, Len(trafficData)) = trafficData
              /\ trafficData'[Len(trafficData')].routeId = route.id
              /\ newTraffic' = Null
         ELSE /\ ~last'.called
              /\ trafficData' = trafficData
              /\ newTraffic' = newTraffic]_vars

C28_Witness ==
  /\ last.op = "saveNewTraffic"
  /\ last.called
  /\ newTraffic = Null
  /\ Len(trafficData) = 2
  /\ trafficData[1] = SeedRow(1)
  /\ trafficData[2].routeId = route.id
  /\ trafficData[2].trafficName = <<"x">>

\* C29: editingId is null exactly when editingData is null, and otherwise
\* equals editingData.id.  saveEditing passes the list with exactly the entries
\* of that id replaced by editingData (same length, same order, every other
\* entry as it was) and clears both; cancelEditing clears both and does not
\* call onTrafficUpdate.
C29_EditingPair ==
  /\ [](/\ editingId = Null <=> editingData = Null
        /\ editingId # Null => editingId.value = editingData.value.id)
  /\ [][/\ last'.op = "saveEditing" =>
             /\ last'.called
             /\ Len(trafficData') = Len(trafficData)
             /\ \A i \in 1..Len(trafficData) :
                  trafficData'[i] =
                    IF trafficData[i].id = editingData.value.id
                      THEN editingData.value
                      ELSE trafficData[i]
             /\ editingId' = Null
             /\ editingData' = Null
        /\ last'.op = "cancelEditing" =>
             /\ ~last'.called
             /\ trafficData' = trafficData
             /\ editingId' = Null
             /\ editingData' = Null]_vars

C29_Witness ==
  /\ last.op = "saveEditing"
  /\ last.called
  /\ editingId = Null
  /\ editingData = Null
  /\ Len(trafficData) = 2
  /\ trafficData[1].trafficName = <<"y">>
  /\ trafficData[2] = SeedRow(2)

\* C30: saveEditing does not lose what happened to the list while the edit was
\* open: in the list it passes, the edited row has the lastUpdate the row had
\* just before the save, and its rsl too unless the user changed rsl in the
\* edit; and it passes no row that the list did not hold just before the save.
C30_EditKeepsConcurrentUpdates ==
  [][last'.op = "saveEditing" =>
       /\ \A i \in 1..Len(trafficData) :
            trafficData[i].id = editingData.value.id =>
              /\ trafficData'[i].lastUpdate = trafficData[i].lastUpdate
              /\ "rsl" \notin last.changed =>
                   trafficData'[i].rsl = trafficData[i].rsl
       /\ {trafficData'[i].id : i \in 1..Len(trafficData')}
            \subseteq {trafficData[i].id : i \in 1..Len(trafficData)}]_vars

=============================================================================
